---- MODULE Spec2Model ----
(***************************************************************************)
(* A model of the replica core of todo-mcp (src/src/backends/multicast.rs): *)
(* the CRDT document held in SiteState, the local-command handler           *)
(* write_notify, the remote-message handler read_notify, the persistence    *)
(* task save_to_file_task and the multicast send leg write_to_multicast.    *)
(*                                                                         *)
(* The document is an automerge AutoCommit.  It is modelled as the set of   *)
(* changes it holds; a change is an entry of the table `changes` (actor,    *)
(* per-actor seq, the changes it depends on, its operations).  hydrate is   *)
(* computed from the operations the way automerge resolves them: the root   *)
(* key "lists" and every scalar field are multi-value registers won by the  *)
(* greatest operation id, sequences are RGA lists.  reconcile produces the  *)
(* operations autosurgeon derives for a Vec of key-less structs: elements   *)
(* are updated in place by position, then the tail is inserted or deleted.  *)
(* The metadata maps are always empty in the model and are left out.        *)
(***************************************************************************)
EXTENDS Naturals, Integers, Sequences, FiniteSets, TLC

\* ------------------------------------------------------------------ bounds
\* Two replicas; a replica's site_id and the actor id of its document are
\* both its number.
Sites == {1, 2}
\* Local commands the consumers issue in one run, over all replicas.
MaxCmds == 2
\* Alive heartbeats the send legs emit in one run, over all replicas.
MaxAlive == 1
\* Datagrams the network delivers twice in one run.
MaxDup == 1

\* Characters an edit buffer of the terminal UI holds at most.
MaxBuf == 1

\* --------------------------------------------------------------- TodoState
\* TodoState.lists: a sequence of [title, items]; an item is [text, completed].
EmptyState == << >>

TodoList(title) == [title |-> title, items |-> << >>]

TodoItem(text) == [text |-> text, completed |-> FALSE]

Min(a, b) == IF a < b THEN a ELSE b

\* Vec::remove(i), 0-based.
RemoveAt(s, i) == [k \in 1..(Len(s) - 1) |-> IF k <= i THEN s[k] ELSE s[k + 1]]

\* ------------------------------------------------------------ operation ids
\* An automerge operation id is counter@actor, ordered by counter, then actor.
HEAD == <<0, 0>>
PREV == <<0, 1>>

IdLess(a, b) == a[1] < b[1] \/ (a[1] = b[1] /\ a[2] < b[2])

MaxId(S) == CHOOSE x \in S : \A y \in S : y = x \/ IdLess(y, x)

RECURSIVE SortDesc(_)
SortDesc(S) == IF S = {} THEN << >>
               ELSE LET m == MaxId(S) IN <<m>> \o SortDesc(S \ {m})

\* Operations: mk (put_object(ROOT, "lists", List)), ins (insert a map into
\* the list object obj after element ref, with its first scalar v), del
\* (delete element ref), put (set field f of element ref to v).
Op(k, obj, ref, f, v) == [k |-> k, obj |-> obj, ref |-> ref, f |-> f, v |-> v]

BoolStr(b) == IF b THEN "true" ELSE "false"

\* The operations of the changes D of table chs, each with its id and change.
OpsOf(chs, D) ==
  UNION { { [id |-> <<chs[c].start + i - 1, chs[c].actor>>, c |-> c, op |-> chs[c].ops[i]]
            : i \in 1..Len(chs[c].ops) } : c \in D }

\* The list object the root key "lists" resolves to: the winner of the
\* conflicting put_object operations.
ListsObj(O) ==
  LET mks == {o.id : o \in {x \in O : x.op.k = "mk"}}
  IN  IF mks = {} THEN HEAD ELSE MaxId(mks)

\* RGA order of the elements of list object obj: the elements inserted after
\* ref, greatest id first, each followed by the elements inserted after it.
RECURSIVE RgaSeq(_, _, _)
RECURSIVE RgaFrom(_, _, _)
RgaSeq(O, obj, kids) ==
  IF Len(kids) = 0 THEN << >>
  ELSE <<Head(kids)>> \o RgaFrom(O, obj, Head(kids)) \o RgaSeq(O, obj, Tail(kids))
RgaFrom(O, obj, ref) ==
  RgaSeq(O, obj,
         SortDesc({o.id : o \in {x \in O : x.op.k = "ins" /\ x.op.obj = obj /\ x.op.ref = ref}}))

Deleted(O, e) == \E o \in O : o.op.k = "del" /\ o.op.ref = e

\* The visible elements of list object obj, in order.
VisElems(O, obj) ==
  LET all == RgaFrom(O, obj, HEAD)
  IN  SelectSeq(all, LAMBDA e : ~Deleted(O, e))

\* The operations that set field f of element e (the insert sets the first
\* value) and that no put which had seen them has overwritten.
LiveOps(chs, O, e, f) ==
  LET cands == {o \in O : \/ (o.op.k = "ins" /\ o.id = e)
                          \/ (o.op.k = "put" /\ o.op.ref = e /\ o.op.f = f)}
  IN  {o \in cands : ~\E p \in cands : p.op.k = "put" /\ o.c \in chs[p.c].deps}

\* The value of field f of element e: of the live operations the one with the
\* greatest id wins; an inserted item starts with completed = false.
FieldVal(chs, O, e, f) ==
  LET live == LiveOps(chs, O, e, f)
      w    == CHOOSE o \in live : \A p \in live : p = o \/ IdLess(p.id, o.id)
  IN  IF w.op.k = "ins" /\ f = "completed" THEN "false" ELSE w.op.v

HydrateItem(chs, O, e) ==
  [text |-> FieldVal(chs, O, e, "text"), completed |-> FieldVal(chs, O, e, "completed") = "true"]

HydrateList(chs, O, e) ==
  LET ies == VisElems(O, e)
  IN  [title |-> FieldVal(chs, O, e, "title"),
       items |-> [j \in 1..Len(ies) |-> HydrateItem(chs, O, ies[j])]]

\* hydrate(&commit): the TodoState of the changes D.
Hydrate(chs, D) ==
  LET O  == OpsOf(chs, D)
      es == VisElems(O, ListsObj(O))
  IN  [i \in 1..Len(es) |-> HydrateList(chs, O, es[i])]

\* --------------------------------------------------------------- reconcile
RECURSIVE Flatten(_)
Flatten(ss) == IF Len(ss) = 0 THEN << >> ELSE Head(ss) \o Flatten(Tail(ss))

\* A scalar put: automerge drops a put of the value the field already holds
\* when no conflict is left to settle.
PutOps(chs, O, e, f, v) ==
  IF FieldVal(chs, O, e, f) = v /\ Cardinality(LiveOps(chs, O, e, f)) = 1
  THEN << >> ELSE <<Op("put", HEAD, e, f, v)>>

\* The tail of a positional sequence reconcile: the elements m+1.. of the new
\* value are inserted after the last element, those of the old are deleted.
TailOps(obj, es, m, firsts, oldLen) ==
  [j \in 1..(Len(firsts) - m) |->
      Op("ins", obj, IF j > 1 THEN PREV ELSE IF m = 0 THEN HEAD ELSE es[m], "", firsts[m + j])]
  \o [j \in 1..(oldLen - m) |-> Op("del", HEAD, es[m + j], "", "")]

ItemsOps(chs, O, e, ni) ==
  LET ies == VisElems(O, e)
      m   == Min(Len(ies), Len(ni))
  IN  Flatten([j \in 1..m |-> PutOps(chs, O, ies[j], "text", ni[j].text)
                              \o PutOps(chs, O, ies[j], "completed", BoolStr(ni[j].completed))])
      \o TailOps(e, ies, m, [j \in 1..Len(ni) |-> ni[j].text], Len(ies))

\* The operations reconcile(&mut commit, new) adds to a document holding the
\* operations O.
ReconcileOps(chs, O, new) ==
  LET L  == ListsObj(O)
      es == VisElems(O, L)
      m  == Min(Len(es), Len(new))
  IN  IF L = HEAD THEN <<Op("mk", HEAD, HEAD, "", "")>>
      ELSE Flatten([i \in 1..m |-> PutOps(chs, O, es[i], "title", new[i].title)
                                   \o ItemsOps(chs, O, es[i], new[i].items)])
           \o TailOps(L, es, m, [i \in 1..Len(new) |-> new[i].title], Len(es))

MaxCtr(O) == IF O = {} THEN 0 ELSE MaxId({o.id : o \in O})[1]

\* ---------------------------------------------------------------- AutoCommit
\* A document: the changes applied, the changes waiting for a dependency,
\* the actor id, and the changes covered by the last save (the save cursor).
Doc(applied, queue, actor, saved) ==
  [applied |-> applied, queue |-> queue, actor |-> actor, saved |-> saved]

\* The change a transaction of ops commits on doc: the next seq of the actor,
\* depending on all the document holds, its ids following the greatest id.
NewChange(chs, doc, ops) ==
  LET start == MaxCtr(OpsOf(chs, doc.applied)) + 1
  IN  [actor |-> doc.actor,
       seq   |-> 1 + Cardinality({c \in doc.applied : chs[c].actor = doc.actor}),
       deps  |-> doc.applied,
       start |-> start,
       ops   |-> [k \in 1..Len(ops) |->
                    IF ops[k].ref = PREV
                    THEN [ops[k] EXCEPT !.ref = <<start + k - 2, doc.actor>>]
                    ELSE ops[k]]]

\* reconcile(&mut commit, new): [chs, doc] after it; a reconcile that yields
\* no operation commits no change.
Reconcile(chs, doc, new) ==
  LET ops == ReconcileOps(chs, OpsOf(chs, doc.applied), new)
  IN  IF Len(ops) = 0 THEN [chs |-> chs, doc |-> doc]
      ELSE [chs |-> Append(chs, NewChange(chs, doc, ops)),
            doc |-> [doc EXCEPT !.applied = @ \cup {Len(chs) + 1}]]

\* AutoCommit::new() followed by reconcile(TodoState::default()), for actor a.
FreshChange(a) ==
  [actor |-> a, seq |-> 1, deps |-> {}, start |-> 1, ops |-> <<Op("mk", HEAD, HEAD, "", "")>>]

\* A save_incremental that returns no change.
NoDelta(doc) == {}

\* commit.save_incremental(): the changes since the save cursor.
DeltaOf(doc) == doc.applied \ doc.saved

\* commit.save() and save_incremental() leave the cursor at the heads.
Saved(doc) == [doc EXCEPT !.saved = doc.applied]

\* AutoCommit::load(bytes) of a full save, rebound to actor a.
Loaded(d, a) == Doc(d, {}, a, d)

\* automerge refuses a change whose seq the document already holds for its actor.
DupSeq(chs, applied, c) ==
  Cardinality({x \in applied : chs[x].actor = chs[c].actor}) >= chs[c].seq

MinOf(S) == CHOOSE x \in S : \A y \in S : x <= y

\* apply_changes, first loop: each change not yet held is refused (duplicate
\* seq), applied (its dependencies are held) or queued.
RECURSIVE ApplyEach(_, _, _)
ApplyEach(chs, st, S) ==
  IF S = {} \/ ~st.ok THEN st
  ELSE LET c == MinOf(S)
       IN  ApplyEach(chs,
             IF c \in st.applied THEN st
             ELSE IF DupSeq(chs, st.applied, c) THEN [st EXCEPT !.ok = FALSE]
             ELSE IF chs[c].deps \subseteq st.applied
                  THEN [st EXCEPT !.applied = @ \cup {c}]
                  ELSE [st EXCEPT !.queue = @ \cup {c}],
             S \ {c})

\* apply_changes, second loop: queued changes whose dependencies arrived.
RECURSIVE Drain(_, _)
Drain(chs, st) ==
  LET ready == {c \in st.queue : chs[c].deps \subseteq st.applied}
  IN  IF ready = {} \/ ~st.ok THEN st
      ELSE Drain(chs, [st EXCEPT !.applied = @ \cup {MinOf(ready)},
                                 !.queue = @ \ {MinOf(ready)}])

\* commit.load_incremental(bytes) and the apply step of commit.merge(other):
\* [ok, doc]; on an error the changes applied before it stay.
ApplyChanges(chs, doc, S) ==
  LET st == Drain(chs, ApplyEach(chs, [ok |-> TRUE, applied |-> doc.applied,
                                       queue |-> doc.queue], S))
  IN  [ok |-> st.ok, doc |-> [doc EXCEPT !.applied = st.applied, !.queue = st.queue]]

\* Bytes that are no automerge document and no change; every other set of
\* changes stands for its own encoding.
Garbage == {0}
Parses(d) == 0 \notin d

\* commit.load_incremental(bytes): bytes that do not parse are an error before
\* any change is applied.
LoadIncremental(chs, doc, d) ==
  IF Parses(d) THEN ApplyChanges(chs, doc, d) ELSE [ok |-> FALSE, doc |-> doc]

\* A merge that never takes the document for pristine.
NeverReplaces(cur) == FALSE

\* SiteState::merge: a replica whose hydrated lists are empty replaces its
\* document by the remote one, keeping its actor; any other merges.
MergeReplaces(cur) == Len(cur) = 0

Merge(chs, doc, d) ==
  IF ~Parses(d) THEN [ok |-> FALSE, doc |-> doc]
  ELSE IF MergeReplaces(Hydrate(chs, doc.applied))
  THEN [ok |-> TRUE, doc |-> Loaded(d, doc.actor)]
  ELSE ApplyChanges(chs, doc, d)

\* ------------------------------------------------------------------- state
VARIABLES
  changes,     \* every change created so far, by its index
  commit,      \* SiteState.commit of each replica
  alive,       \* SiteState.alive of each replica: the sites held alive
  state_set,   \* read_notify's state_set: sites whose full state was merged
  change_rx,   \* the command channel (TodoCommand) into write_notify
  m_read,      \* inbound datagrams and the channel multi_write into read_notify
  m_write,     \* the outbound channel m_write into write_to_multicast
  file_write,  \* the channel of acknowledgement handles into save_to_file_task
  events,      \* the event channel (TodoEvent) to the consumer
  lock,        \* who holds the RwLock of the site: free or a task's name
  wn,          \* write_notify: idle, or waiting to hand over the Shutdown handle
  rn,          \* read_notify: idle, waiting on a full channel, or ended
  sv,          \* save_to_file_task: idle, or holding a handle and waiting for the lock
  leg,         \* the multicast legs of each replica: new, joined (listening), up or down
  disk,        \* the snapshot file: whether it was written, and the changes in it
  ack,         \* the Shutdown acknowledgement: none, pending or done
  issued,      \* commands issued so far (bounded by MaxCmds)
  nAlive,      \* Alive heartbeats sent so far (bounded by MaxAlive)
  nDup,        \* datagrams the network delivered twice so far (bounded by MaxDup)
  hist         \* history of each replica, kept for the properties

\* The overlay transport (iroh.rs) of each peer.
VARIABLES
  known_peers,        \* KnownPeers: the identities each peer has recorded
  active_peers,       \* ActivePeers: remote identity -> the connection registered for fan-out
  discovered_peer_rx, \* the dial queue fed by discovery
  dialing,            \* discovery loop: the peer it is about to dial, or 0
  peers_to_connect,   \* reconnect loop: the peers it still has to dial in this sweep
  conns,              \* every connection established so far, with its two handlers
  discovered          \* the identities discovery has fed to each peer so far

overlay == <<known_peers, active_peers, discovered_peer_rx, dialing, peers_to_connect,
             conns, discovered>>

\* The replica core (multicast.rs).
core == <<changes, commit, alive, state_set, change_rx, m_read, m_write, file_write,
          events, lock, wn, rn, sv, leg, disk, ack, issued, nAlive, nDup, hist>>

\* The multicast datagram layer (proto.rs), for one sending site.
VARIABLES
  mcast_sender,   \* McastSender.seq of the sending site
  wire,           \* the datagrams in flight
  site_partials,  \* the receiver's SitePartials of the sending site
  decoded,        \* what get_buffer handed to the decoder, in order
  sent,           \* history of the sender: the messages sent and their packets
  receiver,       \* the receive leg and its McastReceiver: "running", "parked"
                  \* (poll_next returned Pending and no waker is set) or "failed"
  other_partials, \* the receiver's SitePartials of a second origin
  rx_hist         \* history of the receiver: the datagrams the network
                  \* delivered twice, the datagrams of the second
                  \* origin's message that reached the host, whether that
                  \* message was emitted, and whether a short datagram came

datagrams == <<mcast_sender, wire, site_partials, decoded, sent, receiver, other_partials,
               rx_hist>>

\* One direction of a stream connection (proto.rs): the peer writes, we read.
VARIABLES
  stream,         \* the bytes written to the stream and not yet read
  ending,         \* "open", or how the stream ended: "finished" or "reset"
  rd,             \* the read loop: "reading", "closed" or "error"
  forwarded,      \* the messages the read loop sent to the inbound channel
  written         \* history: the messages write_message returned Ok for, and
                  \* whether bytes of the stream were lost or not its own

framing == <<stream, ending, rd, forwarded, written>>

\* The aliveness clock of a replica (multicast.rs).
VARIABLES
  now,            \* Instant::now(), in seconds
  seen,           \* per replica, the Instant each alive entry was inserted at
  nFail,          \* leg failures so far (bounded by MaxFail)
  nBad            \* packets that do not load received so far (bounded by MaxBad)

clock == <<now, seen, nFail, nBad>>

\* One connection worker (proto.rs, run_connection_loop) at replica 1, for the
\* connection with the remote site 2.
VARIABLES
  read_handle,    \* the spawned read loop: "running" or "finished"
  write_handle,   \* the spawned write loop: "running" or "finished"
  alive_handle,   \* the spawned heartbeat: "running" or "finished"
  conn_loop,      \* run_connection_loop itself: at its select, at the send of
                  \* the Shutdown, or returned
  inbound         \* history: the kinds of message the worker and its tasks
                  \* sent on inbound_tx, in order

worker == <<read_handle, write_handle, alive_handle, conn_loop, inbound>>

\* The named-socket transport (ipc.rs) of the replicas of one machine.
VARIABLES
  ipc_dir,        \* the <site_id>.sock files in the ipc directory
  scan,           \* setup_ipc of each replica: "new", "bound" (listening, the
                  \* scan task spawned), "scanning" or "done"
  entries,        \* scan_and_connect: the directory entries still to visit
  listener,       \* the connections made to the socket and not yet accepted,
                  \* each the site_id its handshake carries
  handlers,       \* the handle_ipc_connection tasks of each replica, each
                  \* subscribed to broadcast_tx: [remote_site_id, is_initiator]
  fanout          \* history: for each message put on outbound_rx, the
                  \* sender and the copies written towards each remote

ipc == <<ipc_dir, scan, entries, listener, handlers, fanout>>

\* The MCP consumer of a replica (mcp.rs).
VARIABLES
  todo_state      \* TodoMcp.todo_state: the TodoState the tools answer from

consumer == <<todo_state>>

\* The terminal UI of a replica (tui/state.rs, tui/input.rs).
VARIABLES
  tui,            \* TuiState
  spawned,        \* the commands of the tasks send_command has spawned
  panicked        \* a key handler indexed a vector out of range

terminal == <<tui, spawned, panicked>>

\* The transports and consumers beside the multicast core and its layers.
side == <<ipc, consumer, terminal>>

\* What the tasks of the replica core leave alone.
aux == <<overlay, datagrams, clock, framing, worker, side>>
beside_overlay == <<core, datagrams, clock, framing, worker, side>>
beside_datagrams == <<core, overlay, clock, framing, worker, side>>
beside_framing == <<core, overlay, datagrams, clock, worker, side>>
beside_worker == <<overlay, datagrams, clock, framing, side>>
beside_ipc == <<core, overlay, datagrams, clock, framing, worker, consumer, terminal>>
beside_consumer == <<overlay, datagrams, clock, framing, worker, ipc, terminal>>
beside_terminal == <<overlay, datagrams, clock, framing, worker, ipc, consumer>>

vars == <<core, aux>>

\* Channel capacities of the model (tokio_channel(128) in the source).
CmdCap == 2
OutCap == 2
FileCap == 1
EventCap == 12

Msg(k, d, t) == [k |-> k, d |-> d, t |-> t]
NoMsg == Msg("none", {}, 0)

Event(k, s, n) == [k |-> k, s |-> s, n |-> n]
NoEvent == Event("none", << >>, 0)
\* A StateUpdate that carries the default state whatever the document holds.
StaleUpdate(s) == Event("StateUpdate", << >>, 0)
StateUpdate(s) == Event("StateUpdate", s, 0)
ConnectionStatus(n) == Event("ConnectionStatus", << >>, n)

Cmd(k, li, ii, v) == [k |-> k, li |-> li, ii |-> ii, v |-> v]

IdleRn == [pc |-> "idle", ev |-> NoEvent, out |-> NoMsg, save |-> FALSE, locks |-> FALSE]


Current(r) == Hydrate(changes, commit[r].applied)

\* Every replica has merged a full state (State or Announce) of every other.
RoundTrip == \A r \in Sites : state_set[r] = Sites \ {r}

\* The overlay identities (EndpointId), ordered as numbers.
Peers == {1, 2, 3}

\* Connections established in one run.
MaxConns == 2

\* A connection from its initiator to the accepting peer, the handle_connection
\* task of each end (spawned, registered, dropped or ended) and whether an end
\* closed it as a duplicate.
Conn(from, to) ==
  [from |-> from, to |-> to, ini |-> "spawned", acc |-> "spawned", closed |-> FALSE]

\* setup_iroh: known is what load_known_peers reads (peer 1 finds the other
\* peers, which an earlier run recorded; peers 2 and 3 find no file), the
\* active map is empty.
InitOverlay ==
  /\ known_peers = [p \in Peers |-> IF p = 1 THEN Peers \ {1} ELSE {}]
  /\ active_peers = [p \in Peers |-> [q \in Peers |-> 0]]
  /\ discovered_peer_rx = [p \in Peers |-> << >>]
  /\ dialing = [p \in Peers |-> 0]
  /\ peers_to_connect = [p \in Peers |-> << >>]
  /\ conns = << >>
  /\ discovered = [p \in Peers |-> {}]

\* The body size of a datagram (BUF_SIZE, 1400 in the source) and the largest
\* serialised message, in bytes; the messages sent in one run.
BUF_SIZE == 2
MaxLen == 5
MaxMsgs == 2

\* The serialised form of the message with sequence number seq and length len:
\* bytes that differ from each other and from those of any other message.
\* (Within one run of the send leg the seq of a message is its position among
\* the messages sent; after a restart the position tells the messages apart.)
Encoded(seq, len) == [j \in 1..len |-> <<seq, j>>]

\* The message a byte, a body or a buffered partial belongs to.
MsgOf(body) == body[1][1]

SitePartials(seq, num, partials) == [seq |-> seq, num |-> num, partials |-> partials]

\* McastSender::new starts at seq 1, SitePartials::default is (0, 0, []).
InitDatagrams ==
  /\ mcast_sender = 1
  /\ wire = {}
  /\ site_partials = SitePartials(0, 0, << >>)
  /\ decoded = << >>
  /\ sent = << >>
  /\ receiver = "running"
  /\ other_partials = SitePartials(0, 0, << >>)
  /\ rx_hist = [reached |-> {}, emitted |-> FALSE, short |-> FALSE, dups |-> 0]

\* The longest body read_message accepts (64 MiB in the program).
MaxBody == 3
\* Messages written to the stream in one run.
MaxWrites == 2

\* A SyncMessage of the stream, known by its number and the length of its
\* encoding, and its bincode encoding: bytes that differ from each other and
\* from those of any other message.
StreamMsg(id, len) == [id |-> id, len |-> len]
StreamMsgs == {StreamMsg(id, len) : id \in 1..MaxWrites, len \in 1..(MaxBody + 1)}
Bincode(m) == [j \in 1..m.len |-> (16 * m.id + j) % 256]

\* A body no SyncMessage encodes to.
Malformed == <<255>>

InitFraming ==
  /\ stream = << >>
  /\ ending = "open"
  /\ rd = "reading"
  /\ forwarded = << >>
  /\ written = [msgs |-> << >>, lost |-> FALSE]

\* Messages the worker's tasks may send on inbound_tx in one run.
MaxPut == 3

\* run_connection_loop has spawned its three tasks and waits at the select.
InitWorker ==
  /\ read_handle = "running"
  /\ write_handle = "running"
  /\ alive_handle = "running"
  /\ conn_loop = "select"
  /\ inbound = << >>

\* const ALIVE_TIMEOUT: Duration = Duration::from_secs(5)
ALIVE_TIMEOUT == 5

\* The seconds the clock is followed for.
MaxTime == 6
\* Failures of the network legs in one run, over all replicas.
MaxFail == 1
\* Packets whose bytes do not load in one run, over all replicas.
MaxBad == 1

\* The alive table starts empty.
InitClock ==
  /\ now = 0
  /\ seen = [r \in Sites |-> [o \in Sites |-> 0]]
  /\ nFail = 0
  /\ nBad = 0

\* Messages put on the outbound channel of the named-socket transport in one run.
MaxOut == 2

\* setup_ipc not yet called at any replica: no socket file, no connection.
InitIpc ==
  /\ ipc_dir = {}
  /\ scan = [r \in Sites |-> "new"]
  /\ entries = [r \in Sites |-> {}]
  /\ listener = [r \in Sites |-> << >>]
  /\ handlers = [r \in Sites |-> << >>]
  /\ fanout = << >>

\* ------------------------------------------------------------ construction
\* async_inner up to the spawn of the tasks: no snapshot file exists, so
\* EditState: the target of the edit, its buffer and the cursor in it.
NoEdit == [k |-> "None", list_index |-> 0, item_index |-> 0, buffer |-> << >>, cursor |-> 0]

EditTarget(k, li, ii) == [k |-> k, list_index |-> li, item_index |-> ii]

DefaultUi == [expanded |-> FALSE, selected_item |-> 0]

\* TuiState::new.
InitTui ==
  /\ tui = [todo_state |-> EmptyState, selected_list |-> 0, list_ui |-> << >>,
            focus |-> "ListSelector", edit |-> NoEdit, connection_status |-> 0,
            should_quit |-> FALSE]
  /\ spawned = << >>
  /\ panicked = FALSE

\* SiteState::new creates a document, reconciles the default state into it
\* and sends the first StateUpdate.
Init ==
  /\ changes = [r \in Sites |-> FreshChange(r)]
  /\ commit = [r \in Sites |-> Doc({r}, {}, r, {})]
  /\ alive = [r \in Sites |-> {}]
  /\ state_set = [r \in Sites |-> {}]
  /\ change_rx = [r \in Sites |-> << >>]
  /\ m_read = [r \in Sites |-> << >>]
  /\ m_write = [r \in Sites |-> << >>]
  /\ file_write = [r \in Sites |-> << >>]
  /\ events = [r \in Sites |-> <<StateUpdate(EmptyState)>>]
  /\ lock = [r \in Sites |-> "free"]
  /\ wn = [r \in Sites |-> "idle"]
  /\ rn = [r \in Sites |-> IdleRn]
  /\ sv = [r \in Sites |-> "idle"]
  /\ leg = [r \in Sites |-> "new"]
  /\ disk = [r \in Sites |-> [written |-> FALSE, d |-> {}, at |-> 0]]
  /\ ack = [r \in Sites |-> "none"]
  /\ issued = 0
  /\ nAlive = 0
  /\ nDup = 0
  /\ hist = [r \in Sites |-> [handled |-> 0, queued |-> 0, before |-> 0, handed |-> FALSE,
                              lost |-> FALSE, early |-> FALSE, accepted |-> {},
                              own |-> {}, flush |-> {}, self |-> {}, asked |-> FALSE]]
  /\ InitOverlay
  /\ InitDatagrams
  /\ InitClock
  /\ InitFraming
  /\ InitWorker
  /\ InitIpc
  /\ todo_state = [r \in Sites |-> EmptyState]
  /\ InitTui

\* ---------------------------------------------------------------- consumer
\* A consumer puts a command on the command channel (tx.send(..).await); a
\* Shutdown carries the one-shot handle the consumer then waits on.
Enqueue(r, c) ==
  /\ issued < MaxCmds
  /\ Len(change_rx[r]) < CmdCap
  /\ c.k = "Shutdown" => ack[r] = "none"
  /\ change_rx' = [change_rx EXCEPT ![r] = Append(@, c)]
  /\ issued' = issued + 1
  /\ ack' = [ack EXCEPT ![r] = IF c.k = "Shutdown" THEN "pending" ELSE @]
  /\ hist' = [hist EXCEPT ![r].queued = @ + 1,
                          ![r].before = IF c.k = "Shutdown" THEN hist[r].queued ELSE @]
  /\ UNCHANGED <<changes, commit, alive, state_set, m_read, m_write, file_write, events,
                 lock, wn, rn, sv, leg, disk, nAlive, nDup>>

IssueCmd(r, c) == Enqueue(r, c) /\ UNCHANGED aux

\* The add_list tool of the MCP consumer: push the new list onto its own
\* todo_state, then send the AddList command.
AddListTool(r, title) ==
  /\ todo_state' = [todo_state EXCEPT ![r] = Append(@, TodoList(title))]
  /\ Enqueue(r, Cmd("AddList", 0, 0, title))
  /\ UNCHANGED beside_consumer

\* The background task of the MCP consumer: take the next event; a
\* StateUpdate replaces todo_state, any other event is dropped.
RecvEvent(r) ==
  /\ Len(events[r]) > 0
  /\ events' = [events EXCEPT ![r] = Tail(@)]
  /\ todo_state' = [todo_state EXCEPT ![r] =
                      IF Head(events[r]).k = "StateUpdate" THEN Head(events[r]).s ELSE @]
  /\ UNCHANGED beside_consumer
  /\ UNCHANGED <<changes, commit, alive, state_set, change_rx, m_read, m_write, file_write,
                 lock, wn, rn, sv, leg, disk, ack, issued, nAlive, nDup, hist>>

\* The consumer takes the next event off the event channel.
ConsumeEvent(r) ==
  /\ Len(events[r]) > 0
  /\ events' = [events EXCEPT ![r] = Tail(@)]
  /\ UNCHANGED aux
  /\ UNCHANGED <<changes, commit, alive, state_set, change_rx, m_read, m_write, file_write,
                 lock, wn, rn, sv, leg, disk, ack, issued, nAlive, nDup, hist>>

\* ------------------------------------------------------------ terminal UI
\* What a key handler does: the new TuiState, the commands it hands to
\* send_command, and whether it indexed a vector out of range.
Done(t, cmds) == [t |-> t, cmds |-> cmds, panic |-> FALSE]
Panics(t) == [t |-> t, cmds |-> << >>, panic |-> TRUE]

\* str::trim on the edit buffer.
RECURSIVE TrimStart(_)
TrimStart(b) == IF b # << >> /\ Head(b) = " " THEN TrimStart(Tail(b)) ELSE b

RECURSIVE TrimEnd(_)
TrimEnd(b) ==
  IF b # << >> /\ b[Len(b)] = " " THEN TrimEnd(SubSeq(b, 1, Len(b) - 1)) ELSE b

Trim(b) == TrimEnd(TrimStart(b))

\* TuiState::handle_event.
handle_event(t, event) ==
  IF event.k = "StateUpdate"
  THEN LET state == event.s
           ui    == [i \in 1..Len(state) |->
                       IF i <= Len(t.list_ui) THEN t.list_ui[i] ELSE DefaultUi]
       IN  [t EXCEPT !.list_ui = ui,
                     !.todo_state = state,
                     !.selected_list = IF state # << >> THEN Min(@, Len(state) - 1) ELSE 0]
  ELSE [t EXCEPT !.connection_status = event.n]

list_count(t) == Len(t.todo_state)

selected_list_expanded(t) ==
  /\ t.selected_list < Len(t.list_ui)
  /\ t.list_ui[t.selected_list + 1].expanded

selected_item_index(t) ==
  IF t.selected_list < Len(t.list_ui) THEN t.list_ui[t.selected_list + 1].selected_item ELSE 0

items_in_selected_list(t) ==
  IF t.selected_list < Len(t.todo_state) THEN Len(t.todo_state[t.selected_list + 1].items) ELSE 0

expand_selected(t) ==
  IF t.selected_list < Len(t.list_ui)
  THEN [t EXCEPT !.list_ui[t.selected_list + 1].expanded = TRUE, !.focus = "ItemList"]
  ELSE t

collapse_selected(t) ==
  IF t.selected_list < Len(t.list_ui)
  THEN [t EXCEPT !.list_ui[t.selected_list + 1] = DefaultUi, !.focus = "ListSelector"]
  ELSE t

move_list_up(t) == IF t.selected_list > 0 THEN [t EXCEPT !.selected_list = @ - 1] ELSE t

move_list_down(t) ==
  IF t.selected_list + 1 <= list_count(t) THEN [t EXCEPT !.selected_list = @ + 1] ELSE t

on_add_list_row(t) == t.selected_list = list_count(t)

move_item_up(t) ==
  IF t.selected_list < Len(t.list_ui) /\ t.list_ui[t.selected_list + 1].selected_item > 0
  THEN [t EXCEPT !.list_ui[t.selected_list + 1].selected_item = @ - 1]
  ELSE t

move_item_down(t) ==
  LET max == items_in_selected_list(t) + 1
  IN  IF /\ t.selected_list < Len(t.list_ui)
         /\ t.list_ui[t.selected_list + 1].selected_item + 1 < max
      THEN [t EXCEPT !.list_ui[t.selected_list + 1].selected_item = @ + 1]
      ELSE t

toggle_item(t, li, ii) ==
  Done(IF li < Len(t.todo_state) /\ ii < Len(t.todo_state[li + 1].items)
       THEN [t EXCEPT !.todo_state[li + 1].items[ii + 1].completed = ~@]
       ELSE t,
       <<Cmd("ToggleTodo", li, ii, "n")>>)

remove_item(t, li, ii) ==
  LET u == IF li < Len(t.todo_state) /\ ii < Len(t.todo_state[li + 1].items)
           THEN [t EXCEPT !.todo_state[li + 1].items = RemoveAt(@, ii)]
           ELSE t
      new_count == items_in_selected_list(u)
  IN  Done(IF li < Len(u.list_ui)
           THEN [u EXCEPT !.list_ui[li + 1].selected_item =
                            IF new_count = 0 THEN 0
                            ELSE IF @ >= new_count THEN new_count - 1 ELSE @]
           ELSE u,
           <<Cmd("RemoveTodo", li, ii, "n")>>)

\* Vec::remove panics on an index that is not in the vector.
remove_list(t, li) ==
  IF li < Len(t.todo_state) /\ ~(li < Len(t.list_ui))
  THEN Panics(t)
  ELSE LET u == IF li < Len(t.todo_state)
                THEN [t EXCEPT !.todo_state = RemoveAt(@, li), !.list_ui = RemoveAt(@, li)]
                ELSE t
       IN  Done([u EXCEPT !.selected_list =
                            IF u.todo_state # << >> THEN Min(@, Len(u.todo_state) - 1) ELSE 0],
                <<Cmd("RemoveList", li, 0, "n")>>)

start_edit(t, target, initial) ==
  [t EXCEPT !.edit = [k |-> target.k, list_index |-> target.list_index,
                      item_index |-> target.item_index,
                      buffer |-> initial, cursor |-> Len(initial)],
            !.focus = "Editing"]

FocusBack(t) == IF selected_list_expanded(t) THEN "ItemList" ELSE "ListSelector"

cancel_edit(t) == [t EXCEPT !.edit = NoEdit, !.focus = FocusBack(t)]

confirm_edit(t) ==
  LET edit == t.edit
      text == Trim(edit.buffer)
      li   == edit.list_index
      ii   == edit.item_index
      u    == [t EXCEPT !.edit = NoEdit]
      has  == li < Len(u.todo_state)
  IN  CASE edit.k = "None" -> Done(t, << >>)
        [] edit.k # "None" /\ text = << >> -> Done([u EXCEPT !.focus = FocusBack(u)], << >>)
        [] edit.k = "NewList" /\ text # << >> ->
             Done([u EXCEPT !.todo_state = Append(@, TodoList(text)),
                            !.list_ui = Append(@, DefaultUi),
                            !.focus = "ListSelector"],
                  <<Cmd("AddList", 0, 0, text)>>)
        [] edit.k = "RenameList" /\ text # << >> ->
             Done([u EXCEPT !.todo_state = IF has THEN [@ EXCEPT ![li + 1].title = text] ELSE @,
                            !.focus = FocusBack(u)],
                  <<Cmd("RenameList", li, 0, text)>>)
        [] edit.k = "NewItem" /\ text # << >> ->
             Done([u EXCEPT !.todo_state =
                              IF has THEN [@ EXCEPT ![li + 1].items = Append(@, TodoItem(text))]
                              ELSE @,
                            !.focus = "ItemList"],
                  <<Cmd("AddTodo", li, 0, text)>>)
        [] edit.k = "EditItem" /\ text # << >> ->
             Done([u EXCEPT !.todo_state =
                              IF has /\ ii < Len(u.todo_state[li + 1].items)
                              THEN [@ EXCEPT ![li + 1].items[ii + 1].text = text]
                              ELSE @,
                            !.focus = "ItemList"],
                  <<Cmd("RenameTodo", li, ii, text)>>)

\* The rename key of the item view reads todo_state.lists[list_idx].
RenameSelected(t) ==
  LET idx == t.selected_list
  IN  IF idx < Len(t.todo_state)
      THEN Done(start_edit(t, EditTarget("RenameList", idx, 0), t.todo_state[idx + 1].title),
                << >>)
      ELSE Panics(t)

handle_list_selector(t, key) ==
  CASE key = "q" -> Done([t EXCEPT !.should_quit = TRUE], << >>)
    [] key = "j" -> Done(move_list_down(t), << >>)
    [] key = "k" -> Done(move_list_up(t), << >>)
    [] key \in {"Enter", " ", "Right"} ->
         IF on_add_list_row(t)
         THEN Done(start_edit(t, EditTarget("NewList", 0, 0), << >>), << >>)
         ELSE IF list_count(t) > 0 THEN Done(expand_selected(t), << >>) ELSE Done(t, << >>)
    [] key = "a" -> Done(start_edit(t, EditTarget("NewList", 0, 0), << >>), << >>)
    [] key = "d" ->
         IF ~on_add_list_row(t) /\ list_count(t) > 0
         THEN remove_list(t, t.selected_list) ELSE Done(t, << >>)
    [] key = "r" ->
         IF ~on_add_list_row(t) /\ list_count(t) > 0
         THEN RenameSelected(t) ELSE Done(t, << >>)
    [] OTHER -> Done(t, << >>)

handle_item_list(t, key) ==
  LET list_idx == t.selected_list
      item_idx == selected_item_index(t)
  IN  CASE key \in {"Esc", "Left"} -> Done(collapse_selected(t), << >>)
        [] key = "j" -> Done(move_item_down(t), << >>)
        [] key = "k" -> Done(move_item_up(t), << >>)
        [] key \in {" ", "Enter"} ->
             IF item_idx = items_in_selected_list(t)
             THEN Done(start_edit(t, EditTarget("NewItem", list_idx, 0), << >>), << >>)
             ELSE toggle_item(t, list_idx, item_idx)
        [] key = "a" -> Done(start_edit(t, EditTarget("NewItem", list_idx, 0), << >>), << >>)
        [] key = "d" ->
             IF item_idx < items_in_selected_list(t)
             THEN remove_item(t, list_idx, item_idx) ELSE Done(t, << >>)
        [] key = "e" ->
             IF item_idx < items_in_selected_list(t)
             THEN IF /\ list_idx < Len(t.todo_state)
                     /\ item_idx < Len(t.todo_state[list_idx + 1].items)
                  THEN Done(start_edit(t, EditTarget("EditItem", list_idx, item_idx),
                                       t.todo_state[list_idx + 1].items[item_idx + 1].text),
                            << >>)
                  ELSE Panics(t)
             ELSE Done(t, << >>)
        [] key = "r" ->
RenameSelected(t)
        [] key = "q" -> Done([t EXCEPT !.should_quit = TRUE], << >>)
        [] OTHER -> Done(t, << >>)

\* The characters typed into an edit buffer.
Chars == {"N", " "}

\* EditState: insert_char, delete_back, delete_forward, move_left, move_right.
EditKey(e, key) ==
  LET b == e.buffer
      c == e.cursor
  IN  CASE key = "Left" -> [e EXCEPT !.cursor = IF c > 0 THEN c - 1 ELSE c]
        [] key = "Right" -> [e EXCEPT !.cursor = IF c < Len(b) THEN c + 1 ELSE c]
        [] key = "Backspace" ->
             IF c > 0
             THEN [e EXCEPT !.cursor = c - 1,
                            !.buffer = SubSeq(b, 1, c - 1) \o SubSeq(b, c + 1, Len(b))]
             ELSE e
        [] key = "Delete" ->
             IF c < Len(b)
             THEN [e EXCEPT !.buffer = SubSeq(b, 1, c) \o SubSeq(b, c + 2, Len(b))]
             ELSE e
        [] key \in Chars ->
             [e EXCEPT !.cursor = c + 1,
                       !.buffer = SubSeq(b, 1, c) \o <<key>> \o SubSeq(b, c + 1, Len(b))]
        [] OTHER -> e

handle_editing(t, key) ==
  CASE key = "Esc" -> Done(cancel_edit(t), << >>)
    [] key = "Enter" -> confirm_edit(t)
    [] OTHER -> Done(IF t.edit.k # "None" THEN [t EXCEPT !.edit = EditKey(@, key)] ELSE t,
                     << >>)

handle_key(t, key) ==
  CASE t.focus = "ListSelector" -> handle_list_selector(t, key)
    [] t.focus = "ItemList" -> handle_item_list(t, key)
    [] t.focus = "Editing" -> handle_editing(t, key)

\* The keys pressed: the command keys outside an edit, the characters of
\* Chars and the editing keys inside one, with buffers of at most MaxBuf.
Keys == {"q", "j", "k", "a", "d", "r", "e", "Enter", "Esc", "Left", "Right",
         "Backspace", "Delete"} \cup Chars

Pressed(t, key) ==
  IF t.focus = "Editing"
  THEN /\ key \in Chars \cup {"Enter", "Esc", "Left", "Right", "Backspace", "Delete"}
       /\ key \in Chars => Len(t.edit.buffer) < MaxBuf
  ELSE key \in Keys

\* One turn of event_loop on a key of the terminal of replica r: handle_key,
\* and each command of the handler is left to a task of its own
\* (send_command spawns it). A panic ends the program.
HandleKey(r, key) ==
  LET o == handle_key(tui, key)
  IN  /\ ~panicked /\ ~tui.should_quit
      /\ Pressed(tui, key)
      /\ issued + Len(spawned) + Len(o.cmds) <= MaxCmds
      /\ tui' = IF o.panic THEN tui ELSE o.t
      /\ spawned' = IF o.panic THEN spawned ELSE spawned \o o.cmds
      /\ panicked' = o.panic
      /\ UNCHANGED <<core, beside_terminal>>

\* One of the tasks spawned by send_command sends its command.
SendCommand(r) ==
  \E i \in DOMAIN spawned :
    /\ Enqueue(r, spawned[i])
    /\ spawned' = RemoveAt(spawned, i - 1)
    /\ UNCHANGED <<tui, panicked, beside_terminal>>

\* One turn of event_loop on an event of the replica: handle_event.
HandleEvent(r) ==
  /\ ~panicked /\ ~tui.should_quit
  /\ Len(events[r]) > 0
  /\ events' = [events EXCEPT ![r] = Tail(@)]
  /\ tui' = handle_event(tui, Head(events[r]))
  /\ UNCHANGED <<spawned, panicked, beside_terminal>>
  /\ UNCHANGED <<changes, commit, alive, state_set, change_rx, m_read, m_write, file_write,
                 lock, wn, rn, sv, leg, disk, ack, issued, nAlive, nDup, hist>>

\* ------------------------------------------------------------ write_notify
\* tx.try_send(x).ok(): x is dropped when the channel is full.
TrySend(q, cap, x) == IF Len(q) < cap THEN Append(q, x) ELSE q

\* The match of write_notify on a command, applied to the hydrated state s:
\* the new state, whether reconcile is called, and should_notify_save.
ApplyCmd(s, c) ==
  LET no == [s |-> s, rec |-> FALSE, save |-> FALSE]
      li == c.li + 1
      ii == c.ii + 1
      ok(t) == [s |-> t, rec |-> TRUE, save |-> TRUE]
  IN  CASE c.k = "AddList" -> ok(Append(s, TodoList(c.v)))
        [] c.k = "RemoveList" -> IF c.li < Len(s) THEN ok(RemoveAt(s, c.li)) ELSE no
        [] c.k = "RenameList" ->
             IF c.li < Len(s) THEN ok([s EXCEPT ![li].title = c.v]) ELSE no
        [] c.k = "AddTodo" ->
             IF c.li < Len(s) THEN ok([s EXCEPT ![li].items = Append(@, TodoItem(c.v))]) ELSE no
        [] c.k = "RenameTodo" ->
             IF c.li < Len(s)
             THEN ok(IF c.ii < Len(s[li].items) THEN [s EXCEPT ![li].items[ii].text = c.v] ELSE s)
             ELSE no
        [] c.k = "ToggleTodo" ->
             IF c.li < Len(s) /\ c.ii < Len(s[li].items)
             THEN ok([s EXCEPT ![li].items[ii].completed = ~@]) ELSE no
        [] c.k = "RemoveTodo" ->
             IF c.li < Len(s) /\ c.ii < Len(s[li].items)
             THEN ok([s EXCEPT ![li].items = RemoveAt(@, c.ii)]) ELSE no
        [] c.k = "ClearCompleted" ->
             IF c.li < Len(s)
             THEN ok([s EXCEPT ![li].items = SelectSeq(@, LAMBDA it : ~it.completed)]) ELSE no
        [] OTHER -> no

\* save_to_file_task has returned and dropped the receiver of the handle
\* channel: every send on the channel fails at once.
Closed(r) == sv[r] = "failed"

\* One iteration of write_notify for a command other than Shutdown: under the
\* write lock, hydrate, mutate, reconcile, save_incremental; then try_send a
\* save request and try_send the DeltaChange.
WriteNotifyCmd(r, c) ==
  LET a     == ApplyCmd(Current(r), c)
      rc    == IF a.rec THEN Reconcile(changes, commit[r], a.s)
               ELSE [chs |-> changes, doc |-> commit[r]]
      delta == DeltaOf(rc.doc)
      full  == Len(m_write[r]) >= OutCap
  IN  /\ changes' = rc.chs
      /\ commit' = [commit EXCEPT ![r] = Saved(rc.doc)]
      /\ events' = events
      /\ file_write' = [file_write EXCEPT ![r] = IF a.save /\ ~Closed(r)
                                                 THEN TrySend(@, FileCap, "fresh") ELSE @]
      /\ m_write' = [m_write EXCEPT ![r] = TrySend(@, OutCap, Msg("DeltaChange", delta, 0))]
      /\ hist' = [hist EXCEPT ![r].handled = @ + 1,
                              ![r].lost = @ \/ (full /\ delta # {}),
                              ![r].early = @ \/ (delta # {} /\ ~RoundTrip),
                              ![r].own = @ \cup (rc.doc.applied \ commit[r].applied)]
      /\ UNCHANGED <<lock, wn, ack>>

\* The Shutdown arm: write_tx.send(sender).await.ok(), then try_send(Shutdown).
\* On a closed channel the send fails and the handle is dropped with it.
WriteNotifyHandOver(r) ==
  /\ Closed(r) \/ Len(file_write[r]) < FileCap
  /\ file_write' = [file_write EXCEPT ![r] = IF Closed(r) THEN @ ELSE Append(@, "ack")]
  /\ ack' = [ack EXCEPT ![r] = IF Closed(r) THEN "dropped" ELSE @]
  /\ m_write' = [m_write EXCEPT ![r] = TrySend(@, OutCap, Msg("Shutdown", {}, 0))]
  /\ lock' = [lock EXCEPT ![r] = "free"]
  /\ wn' = [wn EXCEPT ![r] = "idle"]
  /\ hist' = [hist EXCEPT ![r].handled = @ + 1, ![r].handed = ~Closed(r),
                          ![r].flush = hist[r].own]
  /\ UNCHANGED <<changes, commit, events>>

\* write_notify takes the next command once it holds the write lock.  The
\* Shutdown arm waits, holding the lock, while the handle channel is full.
WriteNotify(r) ==
  /\ wn[r] = "idle"
  /\ Len(change_rx[r]) > 0
  /\ lock[r] = "free"
  /\ change_rx' = [change_rx EXCEPT ![r] = Tail(@)]
  /\ LET c == Head(change_rx[r])
     IN  IF c.k # "Shutdown" THEN WriteNotifyCmd(r, c)
         ELSE IF Closed(r) \/ Len(file_write[r]) < FileCap THEN WriteNotifyHandOver(r)
         ELSE /\ wn' = [wn EXCEPT ![r] = "handover"]
              /\ lock' = [lock EXCEPT ![r] = "write_notify"]
              /\ UNCHANGED <<changes, commit, events, file_write, m_write, hist, ack>>
  /\ UNCHANGED aux
  /\ UNCHANGED <<alive, state_set, m_read, rn, sv, leg, disk, issued, nAlive, nDup>>

\* The handle channel has room again: the Shutdown arm goes on.
WriteNotifyResume(r) ==
  /\ wn[r] = "handover"
  /\ WriteNotifyHandOver(r)
  /\ UNCHANGED aux
  /\ UNCHANGED <<alive, state_set, change_rx, m_read, rn, sv, leg, disk, issued, nAlive, nDup>>

\* ------------------------------------------------------------- read_notify
\* A read_notify that takes no message for its own.
NotSelf(r, o) == FALSE

\* "skip stuff from our site"
FromSelf(r, o) == o = r

\* The entries of the alive table of r that retain() drops: those other than
\* the one just inserted (kept) whose Instant has ALIVE_TIMEOUT or more elapsed.
Expired(r, kept) == {o \in alive[r] \ kept : now - seen[r][o] >= ALIVE_TIMEOUT}

\* update_aliveness(Some(o)) with the entries E timed out, and shutdown_site(o)
AliveAfter(al, o, E) == (al \cup {o}) \ E
\* An update_aliveness that reports no count.
NoCount(before, after) == NoEvent

CountEvent(before, after) ==
  IF Cardinality(after) # Cardinality(before) THEN ConnectionStatus(Cardinality(after))
  ELSE NoEvent

\* The Instants of the alive table of r after read_notify took the packet pm:
\* an Alive of another site inserts (site, Instant::now()).
Stamp(r, pm) ==
  IF ~FromSelf(r, pm.site_id) /\ pm.message.k = "Alive"
  THEN [seen[r] EXCEPT ![pm.site_id] = now]
  ELSE seen[r]

\* A read_notify that answers every RequestState.
AnyRequested(r, t) == TRUE

\* "if requested_site_id == site_id"
Requested(r, t) == t = r

\* A read_notify that answers a State as it answers an Announce.
AnswersState(m) == TRUE

\* is_announce: matches!(message, SyncMessage::Announce(_))
IsAnnounce(m) == m.k = "Announce"

\* A read_notify that takes every origin for known.
AlwaysKnown(set, o) == TRUE

\* "If we've seen this site before": state_set.contains(&incoming_site_id)
Known(set, o) == o \in set

\* The match of read_notify on a message m from site o: whether the arm ends
\* without an error, the document, alive table and state_set it leaves, the
\* event and the outbound message it sends (both with send().await), whether
\* it sets should_notify_save, and whether it takes the write lock.
RnHandle(r, o, m, E) ==
  LET doc  == commit[r]
      skip == [ok |-> TRUE, doc |-> doc, alive |-> alive[r], seen |-> state_set[r],
               ev |-> NoEvent, out |-> NoMsg, save |-> FALSE, locks |-> FALSE]
  IN  CASE m.k = "DeltaChange" ->
             IF Known(state_set[r], o)
             THEN LET res == LoadIncremental(changes, doc, m.d)
                  IN  [skip EXCEPT !.ok = res.ok, !.doc = res.doc, !.locks = TRUE,
                                   !.ev = StateUpdate(Hydrate(changes, res.doc.applied)),
                                   !.save = TRUE]
             ELSE [skip EXCEPT !.out = Msg("RequestState", {}, o)]
        [] m.k \in {"State", "Announce"} ->
             LET res == Merge(changes, doc, m.d)
                 ann == IsAnnounce(m)
             IN  [skip EXCEPT !.ok = res.ok, !.locks = TRUE,
                              !.doc = IF ann THEN Saved(res.doc) ELSE res.doc,
                              !.ev = StateUpdate(Hydrate(changes, res.doc.applied)),
                              !.seen = @ \cup {o}, !.save = TRUE,
                              !.out = IF ann THEN Msg("State", res.doc.applied, 0) ELSE NoMsg]
        [] m.k = "RequestState" ->
             IF Requested(r, m.t)
             THEN [skip EXCEPT !.locks = TRUE, !.doc = Saved(doc),
                               !.out = Msg("State", doc.applied, 0)]
             ELSE skip
        [] m.k = "Alive" ->
             [skip EXCEPT !.locks = TRUE, !.alive = AliveAfter(alive[r], o, E),
                          !.ev = CountEvent(alive[r], AliveAfter(alive[r], o, E))]
        [] m.k = "Shutdown" ->
             [skip EXCEPT !.locks = TRUE, !.alive = @ \ {o},
                          !.ev = ConnectionStatus(Cardinality(alive[r] \ {o}))]
        [] OTHER -> skip

\* read_notify runs on from its pending sends: the event (waits when the event
\* channel is full), the outbound message (likewise), then the lock is
\* released and the save request is try_sent.
RnAdvance(r, ev, out, save, locks) ==
  LET evFull  == ev # NoEvent /\ Len(events[r]) >= EventCap
      outFull == out # NoMsg /\ Len(m_write[r]) >= OutCap
      held    == IF locks THEN "read_notify" ELSE lock[r]
      freed   == IF locks THEN "free" ELSE lock[r]
      evs     == IF ev # NoEvent THEN Append(events[r], ev) ELSE events[r]
  IN  IF evFull
      THEN /\ rn' = [rn EXCEPT ![r] = [pc |-> "event", ev |-> ev, out |-> out,
                                       save |-> save, locks |-> locks]]
           /\ lock' = [lock EXCEPT ![r] = held]
           /\ UNCHANGED <<events, m_write, file_write>>
      ELSE IF outFull
      THEN /\ rn' = [rn EXCEPT ![r] = [pc |-> "out", ev |-> NoEvent, out |-> out,
                                       save |-> save, locks |-> locks]]
           /\ lock' = [lock EXCEPT ![r] = held]
           /\ events' = [events EXCEPT ![r] = evs]
           /\ UNCHANGED <<m_write, file_write>>
      ELSE /\ rn' = [rn EXCEPT ![r] = IdleRn]
           /\ lock' = [lock EXCEPT ![r] = freed]
           /\ events' = [events EXCEPT ![r] = evs]
           /\ m_write' = [m_write EXCEPT ![r] = IF out # NoMsg THEN TrySend(@, OutCap, out) ELSE @]
           /\ file_write' = [file_write EXCEPT ![r] = IF save /\ ~Closed(r)
                                                      THEN TrySend(@, FileCap, "fresh") ELSE @]

\* One message taken off the inbound channel by read_notify.
ReadNotify(r) ==
  /\ rn[r].pc = "idle"
  /\ Len(m_read[r]) > 0
  /\ m_read' = [m_read EXCEPT ![r] = Tail(@)]
  /\ LET pm == Head(m_read[r])
         o  == pm.site_id
         m  == pm.message
     IN  IF FromSelf(r, o)
         THEN /\ hist' = [hist EXCEPT ![r].self = @ \cup {m.k}]
              /\ UNCHANGED <<commit, alive, state_set, m_write, file_write, events, lock, rn>>
         ELSE LET E   == IF m.k = "Alive" THEN Expired(r, {o}) ELSE {}
                  h   == RnHandle(r, o, m, E)
                  acc == m.k = "DeltaChange" /\ o \in state_set[r] /\ h.ok
              IN  /\ h.locks => lock[r] = "free"
                  /\ commit' = [commit EXCEPT ![r] = h.doc]
                  /\ alive' = [alive EXCEPT ![r] = h.alive]
                  /\ state_set' = [state_set EXCEPT ![r] = IF h.ok THEN h.seen ELSE @]
                  /\ hist' = [hist EXCEPT ![r].accepted = IF acc THEN @ \cup {m.d} ELSE @,
                                          ![r].asked = @ \/ (m.k = "RequestState" /\ m.t # r)]
                  /\ IF h.ok THEN RnAdvance(r, h.ev, h.out, h.save, h.locks)
                     ELSE /\ rn' = [rn EXCEPT ![r] = [IdleRn EXCEPT !.pc = "ended"]]
                          /\ UNCHANGED <<events, m_write, file_write, lock>>
  /\ seen' = [seen EXCEPT ![r] = Stamp(r, Head(m_read[r]))]
  /\ UNCHANGED <<overlay, datagrams, framing, worker, side, now, nFail, nBad>>
  /\ UNCHANGED <<changes, change_rx, wn, sv, leg, disk, ack, issued, nAlive, nDup>>

\* The channel read_notify was waiting on has room again.
ReadNotifyResume(r) ==
  /\ rn[r].pc \in {"event", "out"}
  /\ rn[r].pc = "event" => Len(events[r]) < EventCap
  /\ rn[r].pc = "out" => Len(m_write[r]) < OutCap
  /\ RnAdvance(r, rn[r].ev, rn[r].out, rn[r].save, rn[r].locks)
  /\ UNCHANGED aux
  /\ UNCHANGED <<changes, commit, alive, state_set, change_rx, m_read, wn, sv, leg, disk,
                 ack, issued, nAlive, nDup, hist>>

\* The aliveness task of read_notify: it takes the write lock and calls
\* update_aliveness(None), which drops the timed-out entries and, if the count
\* changed, sends a ConnectionStatus event.  The task does not wait between
\* two rounds (the interval it ticks is new each round, and the first tick of
\* an interval is immediate), so a round that would drop nothing is left out.
AliveTimer(r) ==
  /\ lock[r] = "free"
  /\ Expired(r, {}) # {}
  /\ Len(events[r]) < EventCap
  /\ alive' = [alive EXCEPT ![r] = @ \ Expired(r, {})]
  /\ events' = [events EXCEPT ![r] = Append(@, CountEvent(alive[r], alive[r] \ Expired(r, {})))]
  /\ UNCHANGED aux
  /\ UNCHANGED <<changes, commit, state_set, change_rx, m_read, m_write, file_write,
                 lock, wn, rn, sv, leg, disk, ack, issued, nAlive, nDup, hist>>

\* read_notify of r holds the write lock at a waiting send to the outbound
\* channel, the channel is full and write_to_multicast, the task that drains
\* it, is not running.
Stalled(r) ==
  /\ lock[r] = "read_notify"
  /\ rn[r].pc = "out"
  /\ Len(m_write[r]) >= OutCap
  /\ leg[r] # "up"

\* A second passes.  A round of the aliveness task and a step of any task
\* that holds the write lock need far less than a second, so while an entry
\* of r has timed out a second passes only if the holder of the lock waits
\* for the network legs.  The clock is read only against the Instants of the
\* alive tables, so it is followed from the first entry on.
Tick ==
  /\ now < MaxTime
  /\ \E r \in Sites : alive[r] # {}
  /\ \A r \in Sites : Expired(r, {}) = {} \/ Stalled(r)
  /\ \A r \in Sites : ~(leg[r] = "joined" /\ lock[r] = "free")
  /\ now' = now + 1
  /\ UNCHANGED <<core, overlay, datagrams, framing, worker, side, seen, nFail, nBad>>

\* -------------------------------------------------------- save_to_file_task
\* A save that writes an empty document.
NoSnapshot(d) == {}

\* What the task writes for the document d: commit.clone().save()
Snapshot(d) == d

\* The task writes the snapshot (taken under the read lock) and completes the handle.
SaveWrite(r, h) ==
  /\ disk' = [disk EXCEPT ![r] = [written |-> TRUE, d |-> Snapshot(commit[r].applied),
                                  at |-> hist[r].handled]]
  /\ ack' = [ack EXCEPT ![r] = IF h = "ack" THEN "done" ELSE @]
  /\ sv' = [sv EXCEPT ![r] = "idle"]

SaveRecv(r) ==
  /\ sv[r] = "idle"
  /\ Len(file_write[r]) > 0
  /\ file_write' = [file_write EXCEPT ![r] = Tail(@)]
  /\ IF lock[r] = "free" THEN SaveWrite(r, Head(file_write[r]))
     ELSE /\ sv' = [sv EXCEPT ![r] = Head(file_write[r])]
          /\ UNCHANGED <<disk, ack>>
  /\ UNCHANGED aux
  /\ UNCHANGED <<changes, commit, alive, state_set, change_rx, m_read, m_write, events,
                 lock, wn, rn, leg, issued, nAlive, nDup, hist>>

SaveResume(r) ==
  /\ sv[r] \notin {"idle", "failed"}
  /\ lock[r] = "free"
  /\ SaveWrite(r, sv[r])
  /\ UNCHANGED aux
  /\ UNCHANGED <<changes, commit, alive, state_set, change_rx, m_read, m_write, file_write,
                 events, lock, wn, rn, leg, issued, nAlive, nDup, hist>>

\* tokio::fs::write returns an error (or create_dir_all did): the ? ends the
\* task.  The handle it holds and the handles still queued are dropped with
\* the receiver; the file is left as it was.
SaveFail(r) ==
  /\ sv[r] # "failed"
  /\ lock[r] = "free"
  /\ sv[r] = "idle" => Len(file_write[r]) > 0
  /\ sv' = [sv EXCEPT ![r] = "failed"]
  /\ file_write' = [file_write EXCEPT ![r] = << >>]
  /\ ack' = [ack EXCEPT ![r] = IF sv[r] = "ack" \/ \E i \in DOMAIN file_write[r] : file_write[r][i] = "ack"
                               THEN "dropped" ELSE @]
  /\ UNCHANGED aux
  /\ UNCHANGED <<changes, commit, alive, state_set, change_rx, m_read, m_write, events,
                 lock, wn, rn, leg, disk, issued, nAlive, nDup, hist>>

\* ---------------------------------------------------------- multicast legs
Packet(o, m) == [site_id |-> o, message |-> m]

\* A datagram sent to the group reaches every replica that is listening, the
\* sender included.
Deliver(o, m) ==
  [d \in Sites |-> IF leg[d] \in {"joined", "up"} THEN Append(m_read[d], Packet(o, m)) ELSE m_read[d]]

\* A non-empty DeltaChange that does not reach some other replica.
Missed(o, m) == m.k = "DeltaChange" /\ m.d # {} /\ \E d \in Sites \ {o} : leg[d] \notin {"joined", "up"}

\* read_from_multicast joins the group.  On a restart the supervisor first
\* reports that it reconnects.
LegJoin(r) ==
  /\ leg[r] \in {"new", "down"}
  /\ leg' = [leg EXCEPT ![r] = "joined"]
  /\ IF leg[r] = "down"
     THEN /\ Len(events[r]) < EventCap
          /\ events' = [events EXCEPT ![r] = Append(@, Event("Reconnecting", << >>, 0))]
     ELSE UNCHANGED events
  /\ UNCHANGED aux
  /\ UNCHANGED <<changes, commit, alive, state_set, change_rx, m_read, m_write, file_write,
                 lock, wn, rn, sv, disk, ack, issued, nAlive, nDup, hist>>

\* write_to_multicast starts: it sends an Announce of a snapshot of the document.
LegAnnounce(r) ==
  /\ leg[r] = "joined"
  /\ lock[r] = "free"
  /\ leg' = [leg EXCEPT ![r] = "up"]
  /\ m_read' = Deliver(r, Msg("Announce", Snapshot(commit[r].applied), 0))
  /\ UNCHANGED aux
  /\ UNCHANGED <<changes, commit, alive, state_set, change_rx, m_write, file_write, events,
                 lock, wn, rn, sv, disk, ack, issued, nAlive, nDup, hist>>

\* A peer o whose legs start again and again (a supervisor restart, or one
\* short-lived process after another under the same site_id): each start of
\* its write_to_multicast sends an Announce, which reaches r.  The next one
\* comes when r has taken the last one.
PeerAnnounce(r, o) ==
  /\ leg[r] \in {"joined", "up"}
  /\ m_read[r] = << >>
  /\ Len(events[r]) <= EventCap
  /\ m_read' = [m_read EXCEPT ![r] =
                  Append(@, Packet(o, Msg("Announce", Snapshot(commit[o].applied), 0)))]
  /\ UNCHANGED aux
  /\ UNCHANGED <<changes, commit, alive, state_set, change_rx, m_write, file_write, events,
                 lock, wn, rn, sv, leg, disk, ack, issued, nAlive, nDup, hist>>

\* write_to_multicast forwards the next outbound message; after a Shutdown it
\* returns and the legs are down until the supervisor restarts them.
LegSend(r) ==
  /\ leg[r] = "up"
  /\ Len(m_write[r]) > 0
  /\ LET m == Head(m_write[r])
     IN  /\ m_read' = Deliver(r, m)
         /\ leg' = [leg EXCEPT ![r] = IF m.k = "Shutdown" THEN "down" ELSE @]
         /\ hist' = [hist EXCEPT ![r].lost = @ \/ Missed(r, m)]
  /\ m_write' = [m_write EXCEPT ![r] = Tail(@)]
  /\ UNCHANGED aux
  /\ UNCHANGED <<changes, commit, alive, state_set, change_rx, file_write, events,
                 lock, wn, rn, sv, disk, ack, issued, nAlive, nDup>>

\* The ConnectionStatus the supervisor sends when a leg returned an error.
NetworkError == Event("NetworkError", << >>, 0)

\* A leg of r returns an error (a socket error, a datagram that does not
\* decode): the supervisor reports it, drops both legs and restarts them
\* 10 s later, or sooner when the network changes.
LegFail(r) ==
  /\ leg[r] \in {"joined", "up"}
  /\ nFail < MaxFail
  /\ nFail' = nFail + 1
  /\ leg' = [leg EXCEPT ![r] = "down"]
  /\ Len(events[r]) < EventCap
  /\ events' = [events EXCEPT ![r] = Append(@, NetworkError)]
  /\ UNCHANGED <<overlay, datagrams, framing, worker, side, now, seen, nBad>>
  /\ UNCHANGED <<changes, commit, alive, state_set, change_rx, m_read, m_write, file_write,
                 lock, wn, rn, sv, disk, ack, issued, nAlive, nDup, hist>>

\* The network loses the DeltaChange datagram of another site that is next to
\* reach replica r (at most one datagram of each origin).
NetLose(r) ==
  /\ Len(m_read[r]) > 0
  /\ LET p == Head(m_read[r])
     IN  /\ p.site_id # r
         /\ p.message.k = "DeltaChange"
         /\ p.message.d # {}
         /\ ~hist[p.site_id].lost
         /\ hist' = [hist EXCEPT ![p.site_id].lost = TRUE]
  /\ m_read' = [m_read EXCEPT ![r] = Tail(@)]
  /\ UNCHANGED aux
  /\ UNCHANGED <<changes, commit, alive, state_set, change_rx, m_write, file_write, events,
                 lock, wn, rn, sv, leg, disk, ack, issued, nAlive, nDup>>

\* read_from_multicast of r forwards a DeltaChange or a State of site o whose
\* bytes automerge cannot load.
LegGarbage(r, o, k) ==
  /\ o # r
  /\ leg[r] \in {"joined", "up"}
  /\ nBad < MaxBad
  /\ nBad' = nBad + 1
  /\ m_read' = [m_read EXCEPT ![r] = Append(@, Packet(o, Msg(k, Garbage, 0)))]
  /\ UNCHANGED <<overlay, datagrams, framing, worker, side, now, seen, nFail>>
  /\ UNCHANGED <<changes, commit, alive, state_set, change_rx, m_write, file_write, events,
                 lock, wn, rn, sv, leg, disk, ack, issued, nAlive, nDup, hist>>

\* A site of the group that is no replica of the model, asked for its state.
OtherSite == Cardinality(Sites) + 1

\* read_from_multicast of r forwards a RequestState that site o sent for the
\* state of OtherSite (one such packet in the queue at a time).
LegRequest(r, o) ==
  /\ o # r
  /\ leg[r] \in {"joined", "up"}
  /\ \A i \in DOMAIN m_read[r] : m_read[r][i].message # Msg("RequestState", {}, OtherSite)
  /\ m_read' = [m_read EXCEPT ![r] = Append(@, Packet(o, Msg("RequestState", {}, OtherSite)))]
  /\ UNCHANGED aux
  /\ UNCHANGED <<changes, commit, alive, state_set, change_rx, m_write, file_write, events,
                 lock, wn, rn, sv, leg, disk, ack, issued, nAlive, nDup, hist>>

\* The 1 s interval of write_to_multicast: an Alive heartbeat.
LegAlive(r) ==
  /\ leg[r] = "up"
  /\ nAlive < MaxAlive
  /\ nAlive' = nAlive + 1
  /\ m_read' = Deliver(r, Msg("Alive", {}, 0))
  /\ UNCHANGED aux
  /\ UNCHANGED <<changes, commit, alive, state_set, change_rx, m_write, file_write, events,
                 lock, wn, rn, sv, leg, disk, ack, issued, nDup, hist>>

\* The network delivers the datagram at the head of a replica's inbound queue twice.
NetDup(r) ==
  /\ nDup < MaxDup
  /\ Len(m_read[r]) > 0
  /\ nDup' = nDup + 1
  /\ m_read' = [m_read EXCEPT ![r] = <<Head(@)>> \o @]
  /\ UNCHANGED aux
  /\ UNCHANGED <<changes, commit, alive, state_set, change_rx, m_write, file_write, events,
                 lock, wn, rn, sv, leg, disk, ack, issued, nAlive, hist>>

\* ------------------------------------------------------- overlay transport
\* Discovery feeds every distinct identity it hears of, its own excepted, to
\* the dial queue of p.
Discover(p, q) ==
  /\ q # p /\ q \notin discovered[p]
  /\ discovered' = [discovered EXCEPT ![p] = @ \cup {q}]
  /\ discovered_peer_rx' = [discovered_peer_rx EXCEPT ![p] = Append(@, q)]
  /\ UNCHANGED <<known_peers, active_peers, dialing, peers_to_connect, conns, beside_overlay>>

\* The tie-break of both loops: only the lower identity initiates.
Initiates(our_id, peer_id) == our_id < peer_id

\* Discovery loop, up to the dial: skip self, skip a peer that is active,
\* record a peer of lower identity in known, go on to dial any other.
DiscoveryRecv(p) ==
  /\ dialing[p] = 0
  /\ Len(discovered_peer_rx[p]) > 0
  /\ discovered_peer_rx' = [discovered_peer_rx EXCEPT ![p] = Tail(@)]
  /\ LET peer_id == Head(discovered_peer_rx[p])
     IN  IF peer_id = p \/ active_peers[p][peer_id] # 0
         THEN UNCHANGED <<known_peers, dialing>>
         ELSE IF ~Initiates(p, peer_id)
         THEN /\ known_peers' = [known_peers EXCEPT ![p] = @ \cup {peer_id}]
              /\ UNCHANGED dialing
         ELSE /\ dialing' = [dialing EXCEPT ![p] = peer_id]
              /\ UNCHANGED known_peers
  /\ UNCHANGED <<active_peers, peers_to_connect, conns, discovered, beside_overlay>>

\* connect_to_peer: endpoint.connect succeeds, and a handle_connection task is
\* spawned at each end, or fails.
ConnectToPeer(p, peer_id) ==
  \/ /\ Len(conns) < MaxConns
     /\ conns' = Append(conns, Conn(p, peer_id))
  \/ UNCHANGED conns

\* Discovery loop: the dial.
DiscoveryDial(p) ==
  /\ dialing[p] # 0
  /\ ConnectToPeer(p, dialing[p])
  /\ dialing' = [dialing EXCEPT ![p] = 0]
  /\ UNCHANGED <<known_peers, active_peers, discovered_peer_rx, peers_to_connect, discovered, beside_overlay>>

\* The sequences that list the set S once each (the order of a HashSet).
RECURSIVE Orders(_)
Orders(S) ==
  IF S = {} THEN {<< >>}
  ELSE UNION {{<<x>> \o t : t \in Orders(S \ {x})} : x \in S}

\* Reconnect loop, each 30 s: the known peers that are not self, not active
\* and of higher identity.
ReconnectTick(p) ==
  /\ peers_to_connect[p] = << >>
  /\ LET todo == {q \in known_peers[p] : q # p /\ active_peers[p][q] = 0 /\ Initiates(p, q)}
     IN  /\ todo # {}
         /\ \E s \in Orders(todo) : peers_to_connect' = [peers_to_connect EXCEPT ![p] = s]
  /\ UNCHANGED <<known_peers, active_peers, discovered_peer_rx, dialing, conns, discovered, beside_overlay>>

\* Reconnect loop: the dial of the next peer of the sweep.
ReconnectDial(p) ==
  /\ peers_to_connect[p] # << >>
  /\ ConnectToPeer(p, Head(peers_to_connect[p]))
  /\ peers_to_connect' = [peers_to_connect EXCEPT ![p] = Tail(@)]
  /\ UNCHANGED <<known_peers, active_peers, discovered_peer_rx, dialing, discovered, beside_overlay>>

\* The peer at which the handle_connection task of an end runs, and its remote.
OurId(c, is_initiator) == IF is_initiator THEN c.from ELSE c.to
RemoteId(c, is_initiator) == IF is_initiator THEN c.to ELSE c.from

\* Deduplication in handle_connection: an accepted connection from a lower
\* identity that is already registered is closed; any other is registered.
DropsDuplicate(registered, is_initiator, our_id, remote_id) ==
  registered /\ ~is_initiator /\ our_id > remote_id

\* handle_connection up to the registration: record the remote in known,
\* then, under the write lock of the active map, drop the connection as a
\* duplicate or register it in place of whatever the map holds.
HandleConnection(i, is_initiator) ==
  LET c == conns[i]
      our_id == OurId(c, is_initiator)
      remote_id == RemoteId(c, is_initiator)
      drop == DropsDuplicate(active_peers[our_id][remote_id] # 0, is_initiator,
                             our_id, remote_id)
      to == IF drop THEN "dropped" ELSE "registered"
  IN  /\ (IF is_initiator THEN c.ini ELSE c.acc) = "spawned"
      /\ known_peers' = [known_peers EXCEPT ![our_id] = @ \cup {remote_id}]
      /\ active_peers' = IF drop THEN active_peers
                         ELSE [active_peers EXCEPT ![our_id][remote_id] = i]
      /\ conns' = [conns EXCEPT ![i] = IF is_initiator
                                       THEN [@ EXCEPT !.ini = to]
                                       ELSE [@ EXCEPT !.acc = to, !.closed = @ \/ drop]]
      /\ UNCHANGED <<discovered_peer_rx, dialing, peers_to_connect, discovered, beside_overlay>>

\* handle_connection after run_connection_loop returned (a stream failed, the
\* remote closed, or the broadcast sender of this connection was replaced): the
\* cleanup removes the entry of the remote from the active map.
ConnectionEnd(i, is_initiator) ==
  LET c == conns[i]
  IN  /\ (IF is_initiator THEN c.ini ELSE c.acc) = "registered"
      /\ active_peers' = [active_peers EXCEPT
                            ![OurId(c, is_initiator)][RemoteId(c, is_initiator)] = 0]
      /\ conns' = [conns EXCEPT ![i] = IF is_initiator THEN [@ EXCEPT !.ini = "ended"]
                                                       ELSE [@ EXCEPT !.acc = "ended"]]
      /\ UNCHANGED <<known_peers, discovered_peer_rx, dialing, peers_to_connect, discovered, beside_overlay>>


\* ---------------------------------------------------------- datagram layer
\* A datagram: the 16-byte header (site_id left out: one sending site) and
\* the body.
Datagram(seq, num, idx, body) == [seq |-> seq, num |-> num, idx |-> idx, body |-> body]

\* McastSender::send, the loop: while bytes are left, split off a body of at
\* most BUF_SIZE bytes and emit it with the current idx.
RECURSIVE SendLoop(_, _, _, _, _)
SendLoop(seq, num, val, to_send, idx) ==
  IF to_send > 0
  THEN LET end == Min(BUF_SIZE, Len(val))
       IN  <<Datagram(seq, num, idx, SubSeq(val, 1, end))>>
           \o SendLoop(seq, num, SubSeq(val, end + 1, Len(val)), to_send - end, idx + 1)
  ELSE << >>

\* The num field of every datagram of a message of len bytes.
NumOf(len) == (len \div BUF_SIZE) + 1

\* McastSender::send: the datagrams of the serialised message val.
Send(seq, val) == SendLoop(seq, NumOf(Len(val)), val, Len(val), 0)

\* The sending site sends a message of len bytes and increments seq.
McastSend(len) ==
  /\ Len(sent) < MaxMsgs
  /\ LET out == Send(mcast_sender, Encoded(Len(sent) + 1, len))
     IN  /\ wire' = wire \cup {out[i] : i \in DOMAIN out}
         /\ sent' = Append(sent, [seq |-> mcast_sender, len |-> len, num |-> NumOf(len),
                                  packets |-> Len(out), arrived |-> {}, dropped |-> {},
                                  bad |-> FALSE])
  /\ mcast_sender' = mcast_sender + 1
  /\ UNCHANGED <<site_partials, decoded, receiver, other_partials, rx_hist, beside_datagrams>>

\* The sending site sends a message of one byte that the receiver's build of
\* SyncMessage cannot decode (a variant it does not know).
McastSendBad ==
  /\ Len(sent) < MaxMsgs
  /\ LET out == Send(mcast_sender, Encoded(Len(sent) + 1, 1))
     IN  /\ wire' = wire \cup {out[i] : i \in DOMAIN out}
         /\ sent' = Append(sent, [seq |-> mcast_sender, len |-> 1, num |-> NumOf(1),
                                  packets |-> Len(out), arrived |-> {}, dropped |-> {},
                                  bad |-> TRUE])
  /\ mcast_sender' = mcast_sender + 1
  /\ UNCHANGED <<site_partials, decoded, receiver, other_partials, rx_hist, beside_datagrams>>

\* The reset of fill_from_buffer: a datagram of another seq empties the
\* partials and sets seq and num.
ResetOnSeq(sp, d) ==
  IF d.seq # sp.seq THEN SitePartials(d.seq, d.num, << >>) ELSE sp

\* SitePartials::fill_from_buffer: a datagram of another seq resets the
\* partials; the body is pushed with its idx.
FillFromBuffer(sp, d) ==
  [ResetOnSeq(sp, d) EXCEPT !.partials = Append(@, <<d.idx, d.body>>)]

\* History: the partials of message i that fill_from_buffer discards on d.
Discarded(sp, d, i) ==
  IF d.seq # sp.seq
  THEN {sp.partials[k][1] : k \in {k \in DOMAIN sp.partials : MsgOf(sp.partials[k][2]) = i}}
  ELSE {}

\* The partials as they arrived.
Unsorted(partials) == partials

\* partials.sort_by(idx): a stable sort by the idx of each partial.
RECURSIVE SortByIdx(_)
SortByIdx(partials) ==
  IF partials = << >> THEN << >>
  ELSE LET x == partials[Len(partials)]
           rest == SortByIdx(SubSeq(partials, 1, Len(partials) - 1))
           before == SelectSeq(rest, LAMBDA y : y[1] <= x[1])
           after == SelectSeq(rest, LAMBDA y : y[1] > x[1])
       IN  before \o <<x>> \o after

RECURSIVE Concat(_)
Concat(partials) ==
  IF partials = << >> THEN << >> ELSE partials[1][2] \o Concat(Tail(partials))

\* SitePartials::get_buffer: nothing until as many partials as num are held;
\* then the partials are taken, sorted by idx and their bodies concatenated.
Complete(sp) == Len(sp.partials) = sp.num
GetBuffer(sp) == Concat(SortByIdx(sp.partials))

\* bincode::serde::decode_from_slice: the bytes decode when they are the whole
\* serialised form of one message that the receiver's SyncMessage knows.
DecodeFromSlice(bytes) ==
  /\ bytes # << >>
  /\ MsgOf(bytes) \in DOMAIN sent
  /\ ~sent[MsgOf(bytes)].bad
  /\ bytes = Encoded(MsgOf(bytes), sent[MsgOf(bytes)].len)

\* read_from_multicast returns with the error of try_next: its McastReceiver
\* is dropped, and with it the SitePartials of every origin.
DropReceiver(sp) == SitePartials(0, 0, << >>)

\* McastReceiver::poll_next for the datagram d: fill the partials of the site
\* and, when get_buffer yields bytes, hand them to the decoder.  A decode error
\* is returned to read_from_multicast, which ends with it.
Reassemble(d) ==
  /\ receiver = "running"
  /\ d \in wire
  /\ LET sp == FillFromBuffer(site_partials, d)
     IN  IF Complete(sp)
         THEN /\ decoded' = Append(decoded, [seq |-> sp.seq,
                                             order |-> [i \in DOMAIN sp.partials |-> sp.partials[i][1]],
                                             bytes |-> GetBuffer(sp)])
              /\ IF DecodeFromSlice(GetBuffer(sp))
                 THEN /\ site_partials' = [sp EXCEPT !.partials = << >>]
                      /\ UNCHANGED <<receiver, other_partials>>
                 ELSE /\ receiver' = "failed"
                      /\ site_partials' = SitePartials(0, 0, << >>)
                      /\ other_partials' = DropReceiver(other_partials)
         ELSE /\ site_partials' = sp
              /\ UNCHANGED <<decoded, receiver, other_partials>>
  /\ sent' = [i \in DOMAIN sent |->
                [sent[i] EXCEPT !.arrived = IF i = MsgOf(d.body) THEN @ \cup {d.idx} ELSE @,
                                !.dropped = @ \cup Discarded(site_partials, d, i)]]
  /\ UNCHANGED <<mcast_sender, beside_datagrams>>

\* The datagram d reaches the receiver once.
PollNext(d) ==
  /\ Reassemble(d)
  /\ wire' = wire \ {d}
  /\ UNCHANGED rx_hist

\* The network delivers the datagram d twice: the receiver takes this copy
\* and the other one is still on its way.
PollDuplicated(d) ==
  /\ rx_hist.dups < MaxDup
  /\ Reassemble(d)
  /\ wire' = wire
  /\ rx_hist' = [rx_hist EXCEPT !.dups = @ + 1]

\* The message of the second origin: two datagrams with seq 1.
OtherMessage == Send(1, Encoded(0, BUF_SIZE + 1))

\* The datagram i of the second origin's message reaches the host.  A running
\* receiver fills the partials of that origin and emits the message when it
\* is complete; with the receive leg down nobody listens and the datagram is
\* gone.  (While the receiver is parked the datagram waits in the socket.)
PollOther(i) ==
  /\ receiver # "parked"
  /\ i \in DOMAIN OtherMessage
  /\ i \notin rx_hist.reached
  /\ LET sp == FillFromBuffer(other_partials, OtherMessage[i])
         done == receiver = "running" /\ Complete(sp)
     IN  /\ other_partials' = IF receiver # "running" THEN other_partials
                              ELSE IF done THEN [sp EXCEPT !.partials = << >>] ELSE sp
         /\ rx_hist' = [rx_hist EXCEPT !.reached = @ \cup {i}, !.emitted = @ \/ done]
  /\ UNCHANGED <<mcast_sender, wire, site_partials, decoded, sent, receiver, beside_datagrams>>

\* A short datagram that fails the receive leg.
ShortFails == "failed"

\* poll_next on a datagram of fewer than 16 bytes: a warning, and
\* Poll::Pending is returned without a waker being woken or registered.
OnShort == "parked"

\* A datagram shorter than the header reaches the receiver.
PollShort ==
  /\ receiver = "running"
  /\ receiver' = OnShort
  /\ rx_hist' = [rx_hist EXCEPT !.short = TRUE]
  /\ UNCHANGED <<mcast_sender, wire, site_partials, decoded, sent, other_partials,
                 beside_datagrams>>

\* The task of the supervisor is woken for another reason (the 1 s interval
\* of the send leg, which runs in the same task): its select polls the
\* receive leg again.
Wake ==
  /\ receiver = "parked"
  /\ receiver' = "running"
  /\ UNCHANGED <<mcast_sender, wire, site_partials, decoded, sent, other_partials, rx_hist,
                 beside_datagrams>>

\* The supervisor starts the receive leg again: read_from_multicast makes a
\* new McastReceiver, whose site_partials are empty.
ReceiverRestart ==
  /\ receiver = "failed"
  /\ receiver' = "running"
  /\ site_partials' = SitePartials(0, 0, << >>)
  /\ other_partials' = SitePartials(0, 0, << >>)
  /\ UNCHANGED <<mcast_sender, wire, decoded, sent, rx_hist, beside_datagrams>>

\* The supervisor starts the send leg again: write_to_multicast makes a new
\* McastSender, whose seq is 1.
McastRestart ==
  /\ mcast_sender # 1
  /\ mcast_sender' = 1
  /\ UNCHANGED <<wire, site_partials, decoded, sent, receiver, other_partials, rx_hist,
                 beside_datagrams>>

\* The network loses the datagram d.
Lose(d) ==
  /\ d \in wire
  /\ wire' = wire \ {d}
  /\ UNCHANGED <<mcast_sender, site_partials, decoded, sent, receiver, other_partials,
                 rx_hist, beside_datagrams>>

\* -------------------------------------------------------- connection worker
\* The remote site of the connection, and the replica the worker runs in.
Local == CHOOSE r \in Sites : \A o \in Sites : r <= o
remote_site_id == CHOOSE o \in Sites : o # Local

\* inbound_tx.send(m).await of the worker or one of its tasks, for the remote
\* site: the message goes to read_notify's channel.
InboundSend(m) ==
  /\ Len(inbound) < MaxPut
  /\ m_read' = [m_read EXCEPT ![Local] = Append(@, Packet(remote_site_id, m))]
  /\ inbound' = Append(inbound, m.k)

\* What a step of the worker leaves alone in the replica core.
WorkerKeeps ==
  UNCHANGED <<changes, commit, alive, state_set, change_rx, m_write, file_write, events,
              lock, wn, rn, sv, leg, disk, ack, issued, nAlive, nDup, hist>>

\* The read task, Ok(Some(msg)): a message of the peer is forwarded.  The
\* message is a RequestState for a third site, which read_notify ignores.
ReadTaskForward ==
  /\ read_handle = "running"
  /\ InboundSend(Msg("RequestState", {}, OtherSite))
  /\ WorkerKeeps
  /\ UNCHANGED <<read_handle, write_handle, alive_handle, conn_loop, beside_worker>>

\* The read task, Ok(None) or Err: the stream ended and the task breaks.
ReadTaskEnd ==
  /\ read_handle = "running"
  /\ read_handle' = "finished"
  /\ UNCHANGED <<core, write_handle, alive_handle, conn_loop, inbound, beside_worker>>

\* The write task: a write error, or the broadcast channel closed, and the
\* task breaks.
WriteTaskEnd ==
  /\ write_handle = "running"
  /\ write_handle' = "finished"
  /\ UNCHANGED <<core, read_handle, alive_handle, conn_loop, inbound, beside_worker>>

\* The heartbeat task, a tick of its 2 s interval: a synthetic Alive of the
\* remote site is sent; the task breaks only when the send fails, that is
\* when read_notify has ended and dropped the receiver.
Heartbeat ==
  /\ alive_handle = "running"
  /\ IF rn[Local].pc = "ended"
     THEN /\ alive_handle' = "finished"
          /\ UNCHANGED <<core, inbound>>
     ELSE /\ InboundSend(Msg("Alive", {}, 0))
          /\ WorkerKeeps
          /\ UNCHANGED alive_handle
  /\ UNCHANGED <<read_handle, write_handle, conn_loop, beside_worker>>

\* tokio::select! on the three JoinHandles: it returns when one task has
\* finished.  The handles of the other two are dropped, which detaches the
\* tasks and does not stop them.
Select ==
  /\ conn_loop = "select"
  /\ "finished" \in {read_handle, write_handle, alive_handle}
  /\ conn_loop' = "shutdown"
  /\ UNCHANGED <<core, read_handle, write_handle, alive_handle, inbound, beside_worker>>

\* The send of the synthetic Shutdown, after which run_connection_loop returns.
SendShutdown ==
  /\ conn_loop = "shutdown"
  /\ conn_loop' = "returned"
  /\ InboundSend(Msg("Shutdown", {}, 0))
  /\ WorkerKeeps
  /\ UNCHANGED <<read_handle, write_handle, alive_handle, beside_worker>>

\* ----------------------------------------------------------- stream framing
\* u32::to_be_bytes and u32::from_be_bytes
ToBeBytes(n) == <<(n \div 16777216) % 256, (n \div 65536) % 256, (n \div 256) % 256, n % 256>>
FromBeBytes(b) == ((b[1] * 256 + b[2]) * 256 + b[3]) * 256 + b[4]

\* write_message: the length of the encoding as u32, big-endian (ToBeBytes
\* keeps the low 32 bits), then the encoding.
Frame(body) == ToBeBytes(Len(body)) \o body

\* The write loop of the peer writes the next message.
WriteMessage(m) ==
  /\ ending = "open"
  /\ Len(written.msgs) < MaxWrites
  /\ m.id = Len(written.msgs) + 1
  /\ stream' = stream \o Frame(Bincode(m))
  /\ written' = [written EXCEPT !.msgs = Append(@, m)]
  /\ UNCHANGED <<beside_framing, ending, rd, forwarded>>

\* A peer that is not this program writes a frame whose body does not decode.
WriteForeign ==
  /\ ending = "open"
  /\ ~written.lost
  /\ stream' = stream \o Frame(Malformed)
  /\ written' = [written EXCEPT !.lost = TRUE]
  /\ UNCHANGED <<beside_framing, ending, rd, forwarded>>

\* The stream ends, gracefully or not, and only the first k unread bytes arrive.
StreamEnd(k, how) ==
  /\ ending = "open"
  /\ k \in 0..Len(stream)
  /\ stream' = SubSeq(stream, 1, k)
  /\ ending' = how
  /\ written' = [written EXCEPT !.lost = @ \/ k < Len(stream) \/ how = "reset"]
  /\ UNCHANGED <<beside_framing, rd, forwarded>>

\* read_exact of n bytes: done, still waiting, UnexpectedEof or another error.
ReadExact(bytes, n, how) ==
  IF Len(bytes) >= n THEN "ok"
  ELSE IF how = "open" THEN "pending"
  ELSE IF how = "finished" THEN "eof"
  ELSE "io"

\* A read_message for which every failed read is an error.
NeverClosed(e) == "error"

\* The match on the read_exact of the length prefix.
OnPrefix(e) == IF e = "eof" THEN "closed" ELSE "error"

Decodes(body) == \E m \in StreamMsgs : Bincode(m) = body
Decode(body) == CHOOSE m \in StreamMsgs : Bincode(m) = body

\* read_message on the unread bytes of a stream that ended as how: the outcome
\* ("pending" while it waits for bytes), the message and the bytes consumed.
ReadMessage(bytes, how) ==
  LET none   == StreamMsg(0, 0)
      prefix == ReadExact(bytes, 4, how)
      len    == FromBeBytes(SubSeq(bytes, 1, 4))
      rest   == SubSeq(bytes, 5, Len(bytes))
      body   == SubSeq(rest, 1, len)
  IN  IF prefix = "pending" THEN [out |-> "pending", msg |-> none, n |-> 0]
      ELSE IF prefix # "ok" THEN [out |-> OnPrefix(prefix), msg |-> none, n |-> 0]
      ELSE IF len > MaxBody THEN [out |-> "error", msg |-> none, n |-> 4]
      ELSE IF ReadExact(rest, len, how) = "pending" THEN [out |-> "pending", msg |-> none, n |-> 0]
      ELSE IF ReadExact(rest, len, how) # "ok" THEN [out |-> "error", msg |-> none, n |-> 4]
      ELSE IF ~Decodes(body) THEN [out |-> "error", msg |-> none, n |-> 4 + len]
      ELSE [out |-> "message", msg |-> Decode(body), n |-> 4 + len]

\* One round of the read loop of run_connection_loop (the inbound channel
\* stays open): a message is forwarded, a close or an error ends the loop.
ReadLoop ==
  /\ rd = "reading"
  /\ LET res == ReadMessage(stream, ending)
     IN  /\ res.out # "pending"
         /\ stream' = SubSeq(stream, res.n + 1, Len(stream))
         /\ forwarded' = IF res.out = "message" THEN Append(forwarded, res.msg) ELSE forwarded
         /\ rd' = IF res.out = "message" THEN "reading" ELSE res.out
  /\ UNCHANGED <<beside_framing, ending, written>>

\* --------------------------------------------------- named-socket transport
\* setup_ipc up to the spawn of the scan: remove a stale socket file of our
\* own name, bind the listener (which creates the file).
Bind(r) ==
  /\ scan[r] = "new"
  /\ ipc_dir' = ipc_dir \cup {r}
  /\ scan' = [scan EXCEPT ![r] = "bound"]
  /\ UNCHANGED <<entries, listener, handlers, fanout, beside_ipc>>

\* scan_and_connect: read_dir lists the socket files present.
ReadDir(r) ==
  /\ scan[r] = "bound"
  /\ entries' = [entries EXCEPT ![r] = ipc_dir]
  /\ scan' = [scan EXCEPT ![r] = "scanning"]
  /\ UNCHANGED <<ipc_dir, listener, handlers, fanout, beside_ipc>>

\* handle_ipc_connection is spawned with a new subscription to broadcast_tx.
Subscribe(hs, peer, is_initiator) ==
  Append(hs, [remote_site_id |-> peer, is_initiator |-> is_initiator])

\* scan_and_connect, one entry: skip our own socket; connect to any other
\* one (its listener is bound, so the connect succeeds), write the
\* handshake and spawn the handler as initiator.
ScanEntry(r, peer) ==
  /\ scan[r] = "scanning"
  /\ peer \in entries[r]
  /\ entries' = [entries EXCEPT ![r] = @ \ {peer}]
  /\ IF peer = r
     THEN UNCHANGED <<listener, handlers>>
     ELSE /\ listener' = [listener EXCEPT ![peer] = Append(@, r)]
          /\ handlers' = [handlers EXCEPT ![r] = Subscribe(@, peer, TRUE)]
  /\ UNCHANGED <<ipc_dir, scan, fanout, beside_ipc>>

\* scan_and_connect returns when the entries are exhausted; setup_ipc does
\* not scan again.
ScanDone(r) ==
  /\ scan[r] = "scanning"
  /\ entries[r] = {}
  /\ scan' = [scan EXCEPT ![r] = "done"]
  /\ UNCHANGED <<ipc_dir, entries, listener, handlers, fanout, beside_ipc>>

\* The accept loop: accept a connection, read the site_id of the handshake,
\* ignore a connection from ourselves, spawn the handler as acceptor.
Accept(r) ==
  /\ scan[r] # "new"
  /\ listener[r] # << >>
  /\ listener' = [listener EXCEPT ![r] = Tail(@)]
  /\ handlers' = [handlers EXCEPT ![r] =
                    IF Head(listener[r]) = r THEN @
                    ELSE Subscribe(@, Head(listener[r]), FALSE)]
  /\ UNCHANGED <<ipc_dir, scan, entries, fanout, beside_ipc>>

\* The handlers of r that are connected with the remote site o.
HandlersFor(r, o) == {i \in DOMAIN handlers[r] : handlers[r][i].remote_site_id = o}

\* The fan-out: a message taken off outbound_rx is sent on broadcast_tx, and
\* every handler subscribed writes it to its stream.
FanOut(r) ==
  /\ scan[r] # "new"
  /\ Len(fanout) < MaxOut
  /\ fanout' = Append(fanout, [from |-> r,
                               copies |-> [o \in Sites |-> Cardinality(HandlersFor(r, o))]])
  /\ UNCHANGED <<ipc_dir, scan, entries, listener, handlers, beside_ipc>>

\* ------------------------------------------------------------- the program
Title(r) == IF r = 1 THEN "X" ELSE "Y"
AddList(r) == Cmd("AddList", 0, 0, Title(r))
Shutdown == Cmd("Shutdown", 0, 0, "")

\* Two replicas start, exchange Announce and State, and their consumers add
\* lists.  The consumers do not read their event channels (which have room
\* for every event of the run), and no save request is served.
Next ==
  \/ \E r \in Sites : IssueCmd(r, AddList(r))
  \/ \E r \in Sites : WriteNotify(r)
  \/ \E r \in Sites : ReadNotify(r)
  \/ \E r \in Sites : ReadNotifyResume(r)
  \/ \E r \in Sites : LegJoin(r)
  \/ \E r \in Sites : LegAnnounce(r)
  \/ \E r \in Sites : LegSend(r)

Spec == Init /\ [][Next]_vars

\* As Spec, but only replica 1 has a consumer.
NextOne ==
  \/ IssueCmd(1, AddList(1))
  \/ \E r \in Sites : WriteNotify(r)
  \/ \E r \in Sites : ReadNotify(r)
  \/ \E r \in Sites : LegJoin(r)
  \/ \E r \in Sites : LegAnnounce(r)
  \/ \E r \in Sites : LegSend(r)

SpecOne == Init /\ [][NextOne]_vars

\* As SpecOne, and the network may deliver a DeltaChange datagram twice.
NextDup ==
  \/ IssueCmd(1, AddList(1))
  \/ \E r \in Sites : WriteNotify(r)
  \/ \E r \in Sites : ReadNotify(r)
  \/ \E r \in Sites : LegJoin(r)
  \/ \E r \in Sites : LegAnnounce(r)
  \/ \E r \in Sites : LegSend(r)
  \/ \E r \in Sites : NetDup(r) /\ Head(m_read[r]).message.k = "DeltaChange"

SpecDup == Init /\ [][NextDup]_vars

\* Replica 1 adds a list, sends heartbeats and shuts down; the
\* run ends before the supervisor restarts the legs of replica 1.
NextSelf ==
  \/ \E c \in {AddList(1), Shutdown} : IssueCmd(1, c)
  \/ \E r \in Sites : WriteNotify(r)
  \/ \E r \in Sites : ReadNotify(r)
  \/ \E r \in Sites : LegJoin(r) /\ leg[r] = "new"
  \/ \E r \in Sites : LegAnnounce(r)
  \/ \E r \in Sites : LegSend(r)
  \/ LegAlive(1)

SpecSelf == Init /\ [][NextSelf]_vars

\* The commands of a consumer, with list and item indices in and out of range.
Commands ==
  {Cmd("AddList", 0, 0, "X"), Shutdown}
  \cup {Cmd(k, li, 0, "n") : k \in {"RemoveList", "RenameList", "AddTodo", "ClearCompleted"},
                             li \in {0, 1}}
  \cup {Cmd(k, li, ii, "n") : k \in {"RenameTodo", "ToggleTodo", "RemoveTodo"},
                              li \in {0, 1}, ii \in {0, 1}}

\* Replica 1 alone, its legs not started: the consumer issues commands and
\* reads events, the persistence task serves the save requests.
NextLocal ==
  \/ \E c \in Commands : IssueCmd(1, c)
  \/ ConsumeEvent(1)
  \/ WriteNotify(1)
  \/ WriteNotifyResume(1)
  \/ SaveRecv(1)
  \/ SaveResume(1)

SpecLocal == Init /\ [][NextLocal]_vars

\* As SpecLocal, with a disk that may fail: the persistence task serves the
\* save requests until a write fails.
NextPersist ==
  \/ \E c \in Commands : IssueCmd(1, c)
  \/ ConsumeEvent(1)
  \/ WriteNotify(1)
  \/ WriteNotifyResume(1)
  \/ SaveRecv(1)
  \/ SaveResume(1)
  \/ SaveFail(1)

SpecPersist == Init /\ [][NextPersist]_vars

\* Two replicas over a clock: replica 1 adds lists and listens, replica 2
\* sends heartbeats, its legs fail and are restarted, the aliveness task of
\* replica 1 runs and the seconds pass.
NextAlive ==
  \/ IssueCmd(1, AddList(1))
  \/ WriteNotify(1)
  \/ ReadNotify(1)
  \/ ReadNotifyResume(1)
  \/ \E r \in Sites : LegJoin(r)
  \/ \E r \in Sites : LegAnnounce(r)
  \/ \E r \in Sites : LegSend(r)
  \/ LegFail(2)
  \/ LegAlive(2)
  \/ AliveTimer(1)
  \/ Tick

SpecAlive == Init /\ [][NextAlive]_vars

\* Two replicas over a clock: replica 2 sends heartbeats and shuts down,
\* replica 1 listens, its aliveness task runs and the seconds pass.
NextStatus ==
  \/ IssueCmd(2, Shutdown)
  \/ WriteNotify(2)
  \/ ReadNotify(1)
  \/ \E r \in Sites : LegJoin(r)
  \/ \E r \in Sites : LegAnnounce(r)
  \/ LegSend(2)
  \/ LegAlive(2)
  \/ AliveTimer(1)
  \/ Tick

SpecStatus == Init /\ [][NextStatus]_vars

\* The overlay alone: discovery feeds identities to peer 1, peers dial, accept,
\* register and lose connections.
NextIroh ==
  \/ \E q \in Peers : Discover(1, q)
  \/ \E p \in Peers : DiscoveryRecv(p)
  \/ \E p \in Peers : DiscoveryDial(p)
  \/ \E p \in Peers : ReconnectTick(p)
  \/ \E p \in Peers : ReconnectDial(p)
  \/ \E i \in DOMAIN conns, is_initiator \in BOOLEAN : HandleConnection(i, is_initiator)
  \/ \E i \in DOMAIN conns, is_initiator \in BOOLEAN : ConnectionEnd(i, is_initiator)

SpecIroh == Init /\ [][NextIroh]_vars

\* The overlay at a peer that found no known_peers.json: discovery feeds
\* identities to peer 2, whose known set starts empty; peers dial, accept,
\* register and lose connections.
NextReconnect ==
  \/ \E q \in Peers : Discover(2, q)
  \/ \E p \in Peers : DiscoveryRecv(p)
  \/ \E p \in Peers : DiscoveryDial(p)
  \/ \E p \in Peers : ReconnectTick(p)
  \/ \E p \in Peers : ReconnectDial(p)
  \/ \E i \in DOMAIN conns, is_initiator \in BOOLEAN : HandleConnection(i, is_initiator)
  \/ \E i \in DOMAIN conns, is_initiator \in BOOLEAN : ConnectionEnd(i, is_initiator)

SpecReconnect == Init /\ [][NextReconnect]_vars

\* The datagram layer alone: one site sends messages of every length up to
\* MaxLen; the network delivers the datagrams in any order, or loses them.
NextDatagrams ==
  \/ \E len \in 1..MaxLen : McastSend(len)
  \/ \E d \in wire : PollNext(d)
  \/ \E d \in wire : Lose(d)

SpecDatagrams == Init /\ [][NextDatagrams]_vars

\* As SpecDatagrams, and the network may deliver a datagram twice.
NextDuplicated ==
  \/ \E len \in 1..MaxLen : McastSend(len)
  \/ \E d \in wire : PollNext(d)
  \/ \E d \in wire : PollDuplicated(d)
  \/ \E d \in wire : Lose(d)

SpecDuplicated == Init /\ [][NextDuplicated]_vars

\* As SpecDatagrams, and the send leg of the sending site may be restarted.
NextRestart ==
  \/ \E len \in 1..MaxLen : McastSend(len)
  \/ \E d \in wire : PollNext(d)
  \/ \E d \in wire : Lose(d)
  \/ McastRestart
  \/ ReceiverRestart

SpecRestart == Init /\ [][NextRestart]_vars

\* Two origins and one receiver: the sending site also sends a message the
\* receiver cannot decode, and the receive leg is restarted when it failed.
NextIsolation ==
  \/ \E len \in 1..MaxLen : McastSend(len)
  \/ McastSendBad
  \/ \E d \in wire : PollNext(d)
  \/ \E d \in wire : Lose(d)
  \/ \E i \in DOMAIN OtherMessage : PollOther(i)
  \/ ReceiverRestart

SpecIsolation == Init /\ [][NextIsolation]_vars

\* Two origins and one receiver, which also gets short datagrams.
NextShort ==
  \/ \E len \in 1..MaxLen : McastSend(len)
  \/ \E d \in wire : PollNext(d)
  \/ \E i \in DOMAIN OtherMessage : PollOther(i)
  \/ PollShort
  \/ Wake

SpecShort == Init /\ [][NextShort]_vars

\* Replica 1 adds lists and listens, replica 2 announces itself, and replica 1
\* receives DeltaChanges and States of site 2 whose bytes do not load.
NextGarbage ==
  \/ IssueCmd(1, AddList(1))
  \/ WriteNotify(1)
  \/ ReadNotify(1)
  \/ \E r \in Sites : LegJoin(r) /\ leg[r] = "new"
  \/ \E r \in Sites : LegAnnounce(r)
  \/ LegSend(1)
  \/ \E k \in {"DeltaChange", "State"} : LegGarbage(1, 2, k)

SpecGarbage == Init /\ [][NextGarbage]_vars

\* As SpecOne with legs that start once, and replica 1 also hears
\* RequestStates that replica 2 sent for a third site.
NextBootstrap ==
  \/ IssueCmd(1, AddList(1))
  \/ WriteNotify(1)
  \/ \E r \in Sites : ReadNotify(r)
  \/ \E r \in Sites : LegJoin(r) /\ leg[r] = "new"
  \/ \E r \in Sites : LegAnnounce(r)
  \/ \E r \in Sites : LegSend(r)
  \/ LegRequest(1, 2)

SpecBootstrap == Init /\ [][NextBootstrap]_vars

\* As SpecOne with legs that start once: the consumer of replica 1 adds
\* lists and removes the first list.
NextMonotone ==
  \/ \E c \in {AddList(1), Cmd("RemoveList", 0, 0, "n")} : IssueCmd(1, c)
  \/ WriteNotify(1)
  \/ \E r \in Sites : ReadNotify(r)
  \/ \E r \in Sites : LegJoin(r) /\ leg[r] = "new"
  \/ \E r \in Sites : LegAnnounce(r)
  \/ \E r \in Sites : LegSend(r)

SpecMonotone == Init /\ [][NextMonotone]_vars

\* As SpecOne, and the network may lose a DeltaChange datagram on its way to
\* replica 2.  The legs start once and stay up.
NextLoss ==
  \/ IssueCmd(1, AddList(1))
  \/ \E r \in Sites : WriteNotify(r)
  \/ \E r \in Sites : ReadNotify(r)
  \/ \E r \in Sites : LegJoin(r)
  \/ \E r \in Sites : LegAnnounce(r)
  \/ \E r \in Sites : LegSend(r)
  \/ NetLose(2)

SpecLoss == Init /\ [][NextLoss]_vars

\* One connection worker at replica 1 and the read_notify that takes what the
\* worker sends.
NextWorker ==
  \/ ReadTaskForward
  \/ ReadTaskEnd
  \/ WriteTaskEnd
  \/ Heartbeat
  \/ Select
  \/ SendShutdown
  \/ ReadNotify(Local)

SpecWorker == Init /\ [][NextWorker]_vars

\* Replica 1 with a consumer that issues commands and has stopped reading
\* the event channel, while Announces of a peer keep arriving.  The legs of
\* replica 1 are up and drain its outbound channel.
NextStopped ==
  \/ IssueCmd(1, AddList(1))
  \/ WriteNotify(1)
  \/ ReadNotify(1)
  \/ ReadNotifyResume(1)
  \/ LegJoin(1) /\ leg[1] = "new"
  \/ LegAnnounce(1)
  \/ LegSend(1)
  \/ PeerAnnounce(1, 2)

SpecStopped == Init /\ [][NextStopped]_vars

\* Replica 1 with the MCP consumer, which calls add_list and follows the
\* events; replica 2 runs beside it.  The legs start once.
NextCache ==
  \/ AddListTool(1, Title(1))
  \/ RecvEvent(1)
  \/ WriteNotify(1)
  \/ \E r \in Sites : ReadNotify(r)
  \/ \E r \in Sites : LegJoin(r) /\ leg[r] = "new"
  \/ \E r \in Sites : LegAnnounce(r)
  \/ \E r \in Sites : LegSend(r)

SpecCache == Init /\ [][NextCache]_vars

\* One replica with its terminal UI: keys, the tasks of send_command,
\* write_notify and the events it sends back.
NextTui ==
  \/ \E key \in Keys : HandleKey(1, key)
  \/ SendCommand(1)
  \/ HandleEvent(1)
  \/ WriteNotify(1)

SpecTui == Init /\ [][NextTui]_vars

\* The named-socket transport alone: the replicas of one machine start in
\* any order, each binds, scans and accepts, and messages are fanned out.
NextIpc ==
  \/ \E r \in Sites : Bind(r)
  \/ \E r \in Sites : ReadDir(r)
  \/ \E r \in Sites, o \in Sites : ScanEntry(r, o)
  \/ \E r \in Sites : ScanDone(r)
  \/ \E r \in Sites : Accept(r)
  \/ \E r \in Sites : FanOut(r)

SpecIpc == Init /\ [][NextIpc]_vars

\* One direction of a stream connection alone: the peer writes messages of
\* every length up to one above the longest body the reader accepts, the
\* stream ends anywhere, the read loop reads.
NextStream ==
  \/ \E m \in StreamMsgs : WriteMessage(m)
  \/ WriteForeign
  \/ \E k \in 0..Len(stream), how \in {"finished", "reset"} : StreamEnd(k, how)
  \/ ReadLoop

SpecStream == Init /\ [][NextStream]_vars

\* -------------------------------------------------------------- properties
\* Nothing is left to process: the channels are empty, the handlers wait for
\* input and the legs are up.
Quiescent ==
  \A r \in Sites : /\ change_rx[r] = << >> /\ m_read[r] = << >> /\ m_write[r] = << >>
                   /\ rn[r].pc = "idle" /\ wn[r] = "idle" /\ leg[r] = "up"

\* Every non-empty DeltaChange was produced after the Announce/State round
\* trip and has reached the other replica's handler.
AllDeltasDelivered == \A r \in Sites : ~hist[r].lost /\ ~hist[r].early

\* C1 (Convergence): once two replicas have completed an Announce/State round
\* trip, have delivered to each other every DeltaChange produced afterwards
\* and have processed all messages, their hydrated TodoStates are equal.
C1_Convergence ==
  (Quiescent /\ RoundTrip /\ AllDeltasDelivered) => Current(1) = Current(2)

\* The changes that local commands of replica r committed.
Own(r) == hist[r].own

Titles(s) == {s[i].title : i \in DOMAIN s}

\* C2 (Concurrent edits are both kept): when replica 1 added list X and
\* replica 2 added list Y, neither change depending on the other, and both
\* replicas hold both changes, then both hydrate exactly two lists, X and Y,
\* in the same order.
C2_BothKept ==
  \A x \in Own(1), y \in Own(2) :
    ( /\ x \notin changes[y].deps /\ y \notin changes[x].deps
      /\ \A r \in Sites : {x, y} \subseteq commit[r].applied )
    => /\ Current(1) = Current(2)
       /\ Len(Current(1)) = 2
       /\ Titles(Current(1)) = {"X", "Y"}

\* The TodoState of replica r after this step.
CurrentNext(r) == Hydrate(changes', commit'[r].applied)

\* read_notify takes a packet off the inbound channel of r in this step.
RnTakes(r) == Len(m_read'[r]) < Len(m_read[r])
Taken(r) == Head(m_read[r])

\* write_notify takes a command off the command channel of r in this step.
WnTakes(r) == Len(change_rx'[r]) < Len(change_rx[r])

\* C3 (Delta dedup): the second receipt of a DeltaChange blob that read_notify
\* has already accepted leaves the document as it is, emits no StateUpdate,
\* requests no save and puts nothing on the outbound channel.
C3_DeltaDedup ==
  [][\A r \in Sites :
       ( /\ RnTakes(r) /\ Taken(r).site_id # r
         /\ Taken(r).message.k = "DeltaChange"
         /\ Taken(r).message.d \in hist[r].accepted )
       => /\ commit'[r] = commit[r]
          /\ events'[r] = events[r]
          /\ file_write'[r] = file_write[r]
          /\ m_write'[r] = m_write[r]]_vars

\* C4 (Self-suppression): a message of any kind whose origin is the local
\* site changes neither the document nor the alive table nor state_set, and
\* puts nothing on the event, outbound or save channel.
C4_SelfSuppression ==
  [][\A r \in Sites :
       (RnTakes(r) /\ Taken(r).site_id = r)
       => /\ commit'[r] = commit[r]
          /\ alive'[r] = alive[r]
          /\ state_set'[r] = state_set[r]
          /\ events'[r] = events[r]
          /\ m_write'[r] = m_write[r]
          /\ file_write'[r] = file_write[r]
          /\ rn'[r] = IdleRn]_vars

\* read_notify of some replica has skipped its own DeltaChange, State,
\* Announce and Alive.
C4_Witness ==
  \E r \in Sites : {"DeltaChange", "State", "Announce", "Alive"} \subseteq hist[r].self

\* C5 (Pristine adoption): when a replica with no lists and no local edit in
\* its document merges a State or Announce of a non-empty document, its
\* TodoState becomes that document's and its actor id stays its own.
C5_PristineAdoption ==
  [][\A r \in Sites :
       ( /\ RnTakes(r) /\ Taken(r).site_id # r
         /\ Taken(r).message.k \in {"State", "Announce"}
         /\ Current(r) = EmptyState
         /\ Own(r) \cap commit[r].applied = {}
         /\ Hydrate(changes, Taken(r).message.d) # EmptyState )
       => /\ CurrentNext(r) = Hydrate(changes, Taken(r).message.d)
          /\ commit'[r].actor = commit[r].actor]_vars

\* A replica without a local edit holds a peer's non-empty document in place
\* of its own.
C5_Witness ==
  \E r \in Sites : /\ Own(r) = {} /\ r \notin commit[r].applied
                   /\ commit[r].actor = r /\ Current(r) # EmptyState

\* read_notify of r handles, without an error, a State or Announce of another
\* site or a DeltaChange of a site in state_set.
Accepts(r) ==
  /\ RnTakes(r) /\ Taken(r).site_id # r
  /\ \/ Taken(r).message.k \in {"State", "Announce"}
     \/ Taken(r).message.k = "DeltaChange" /\ Taken(r).site_id \in state_set[r]
  /\ rn'[r].pc # "ended"

\* write_notify of r handles a command that commits a change to the document.
Mutates(r) == WnTakes(r) /\ Len(changes') > Len(changes)

C10_NoBlocking ==
  \A r \in Sites : rn[r].pc # "out" /\ wn[r] # "out"

OutOfRange(s, c) ==
  /\ c.k \in {"RemoveList", "RenameList", "AddTodo", "RenameTodo", "ToggleTodo",
              "RemoveTodo", "ClearCompleted"}
  /\ \/ c.li >= Len(s)
     \/ /\ c.k \in {"RenameTodo", "ToggleTodo", "RemoveTodo"}
        /\ c.ii >= Len(s[c.li + 1].items)

\* C9 (Out-of-range commands are silent no-ops): a command whose list_index
\* or item_index is out of range leaves the TodoState unchanged, requests no
\* save, and leaves write_notify ready for the next command.
C9_OutOfRangeNoOp ==
  [][\A r \in Sites :
       (WnTakes(r) /\ OutOfRange(Current(r), Head(change_rx[r])))
       => /\ CurrentNext(r) = Current(r)
          /\ file_write'[r] = file_write[r]
          /\ wn'[r] = "idle" /\ lock'[r] = "free"]_vars

\* The discovery loop, or the reconnect loop, of p dials in this step.
DiscoveryDials(p) == dialing[p] # 0 /\ dialing'[p] = 0
ReconnectDials(p) == Len(peers_to_connect'[p]) < Len(peers_to_connect[p])

\* C11 (Overlay tie-break): a peer dials, from the discovery loop or from the
\* reconnect loop, only a peer of higher identity (so never itself, and of two
\* peers only the lower one initiates a connection) that is not in its
\* active map when it is dialled.
C11_TieBreak ==
  [][/\ \A p \in Peers :
          /\ DiscoveryDials(p) => /\ p < dialing[p]
                                  /\ active_peers[p][dialing[p]] = 0
          /\ ReconnectDials(p) => /\ p < Head(peers_to_connect[p])
                                  /\ active_peers[p][Head(peers_to_connect[p])] = 0
     /\ \A i \in DOMAIN conns' : conns'[i].from < conns'[i].to]_vars

\* Both handle_connection tasks of connection i are past the registration
\* and neither has returned from the connection loop.
Resolved(i) == /\ conns[i].ini = "registered"
               /\ conns[i].acc \in {"registered", "dropped"}

\* C12 (Overlay duplicate resolution): when two connections between the same
\* two peers are up at the same time, one of them is registered for fan-out
\* at both peers and is not closed, and the other one is closed.
C12_DuplicateResolution ==
  \A i, j \in DOMAIN conns :
    ( /\ i # j /\ conns[i].from = conns[j].from /\ conns[i].to = conns[j].to
      /\ Resolved(i) /\ Resolved(j) )
    => \E s \in {i, j} :
         /\ ~conns[s].closed
         /\ active_peers[conns[s].from][conns[s].to] = s
         /\ active_peers[conns[s].to][conns[s].from] = s
         /\ \A o \in {i, j} \ {s} : conns[o].closed

\* The receiver has handed the serialised message of seq i to the decoder.
Reassembled(i) ==
  \E j \in DOMAIN decoded : decoded[j].seq = i /\ decoded[j].bytes = Encoded(i, sent[i].len)

\* C13 (Fragment round trip): the num field of a message equals the number of
\* datagrams the sender emitted for it, and the receiver reassembles the
\* message if and only if all its datagrams have arrived.
C13_FragmentRoundTrip ==
  \A i \in DOMAIN sent :
    /\ sent[i].num = sent[i].packets
    /\ Reassembled(i) <=> sent[i].arrived = 0..(sent[i].packets - 1)

\* C14 (Out-of-order reassembly): whatever the order in which the datagrams of
\* a message arrived, the bytes handed to the decoder are the bodies in
\* ascending idx order, that is the serialised message.
C14_OutOfOrder ==
  \A j \in DOMAIN decoded :
    /\ decoded[j].seq \in DOMAIN sent
    /\ decoded[j].bytes = Encoded(decoded[j].seq, sent[decoded[j].seq].len)

\* A message whose datagrams did not arrive in ascending idx order was handed
\* to the decoder.
C14_Witness ==
  \E j \in DOMAIN decoded :
    \E a, b \in DOMAIN decoded[j].order : a < b /\ decoded[j].order[a] > decoded[j].order[b]

\* C15: an entry of the alive table is gone no later than ALIVE_TIMEOUT (5 s)
\* after the last message that refreshed it: no entry is older than that.
C15_PrunedInTime ==
  \A r \in Sites : \A o \in alive[r] : now - seen[r][o] <= ALIVE_TIMEOUT

\* C16: every change of the number of entries of the alive table of a replica
\* comes with a ConnectionStatus event carrying the new count, put on the
\* event channel in the same step or held by read_notify at its waiting send.
C16_CountReported ==
  [][\A r \in Sites :
       Cardinality(alive'[r]) # Cardinality(alive[r]) =>
         \/ /\ Len(events'[r]) = Len(events[r]) + 1
            /\ events'[r][Len(events'[r])] = ConnectionStatus(Cardinality(alive'[r]))
         \/ /\ rn'[r].pc = "event"
            /\ rn'[r].ev = ConnectionStatus(Cardinality(alive'[r]))]_vars

\* Replica 1 reported one connection after the heartbeat of replica 2 and none
\* after the entry timed out (no Shutdown was issued).
C16_Witness ==
  /\ issued = 0
  /\ now >= ALIVE_TIMEOUT
  /\ alive[1] = {}
  /\ \E i, j \in DOMAIN events[1] :
       /\ i < j
       /\ events[1][i] = ConnectionStatus(1)
       /\ events[1][j] = ConnectionStatus(0)

\* C17: on a stream that only write_message wrote to and that lost no byte,
\* the read loop returns the messages written, in the order written, and none
\* of them is an error: what it forwarded is a prefix of what was written, it
\* is all of it once the stream is read to its end, and the unread bytes are
\* the frames (4-byte big-endian length, body) of the messages not yet read.
C17_Framing ==
  ~written.lost =>
    /\ rd # "error"
    /\ Len(forwarded) <= Len(written.msgs)
    /\ forwarded = SubSeq(written.msgs, 1, Len(forwarded))
    /\ (rd = "reading" /\ stream = << >>) => forwarded = written.msgs
    /\ rd = "reading" =>
         stream = Flatten([i \in 1..(Len(written.msgs) - Len(forwarded)) |->
                          Frame(Bincode(written.msgs[Len(forwarded) + i]))])

\* C18: the read loop ends as closed exactly when the stream ended before a
\* whole length prefix was read; a length above the limit, an end of stream
\* inside the body, a body that does not decode and any other read error end
\* it as an error; once it ended it forwards nothing more.
C18_ReadOutcomes ==
  [][LET prefix == Len(stream) >= 4
         len    == FromBeBytes(SubSeq(stream, 1, 4))
         whole  == prefix /\ Len(stream) >= 4 + len
         body   == SubSeq(stream, 5, 4 + len)
     IN  /\ (rd = "reading" /\ rd' = "closed") <=>
              (rd = "reading" /\ rd' # rd /\ ~prefix /\ ending = "finished")
         /\ (rd = "reading" /\ rd' = "error") <=>
              /\ rd = "reading" /\ rd' # rd
              /\ \/ ~prefix /\ ending = "reset"
                 \/ prefix /\ len > MaxBody
                 \/ prefix /\ ~whole /\ ending # "open"
                 \/ whole /\ ~Decodes(body)
         /\ forwarded' # forwarded =>
              /\ rd = "reading" /\ rd' = "reading"
              /\ whole /\ len <= MaxBody /\ Decodes(body)
              /\ forwarded' = Append(forwarded, Decode(body))
         /\ rd # "reading" => rd' = rd /\ forwarded' = forwarded]_vars

\* The read loop forwarded a message and then ended: closed after an end of
\* stream inside the next length prefix, with the bytes of it left unread.
C18_Witness ==
  /\ rd = "closed"
  /\ forwarded # << >>
  /\ stream # << >>
  /\ Len(stream) < 4

\* read_notify of r is about to take a DeltaChange of a known origin, a State
\* or an Announce whose load or merge fails.
RnFails(r) ==
  /\ rn[r].pc = "idle"
  /\ Len(m_read[r]) > 0
  /\ ~FromSelf(r, Head(m_read[r]).site_id)
  /\ ~RnHandle(r, Head(m_read[r]).site_id, Head(m_read[r]).message, {}).ok

\* C19: when the load of a remote DeltaChange or the merge of a remote State
\* fails, the document of the replica is unchanged, the origin is unknown
\* afterwards (not in state_set) and read_notify goes on with the next message.
C19_FailureStaysLocal ==
  [][\A r \in Sites :
       (RnFails(r) /\ m_read'[r] = Tail(m_read[r])) =>
         /\ commit'[r] = commit[r]
         /\ Head(m_read[r]).site_id \notin state_set'[r]
         /\ rn'[r].pc # "ended"]_vars

\* read_notify of r takes a message of kind k of another site in this step.
RnTakesKind(r, K) ==
  /\ rn[r].pc = "idle"
  /\ Len(m_read[r]) > 0
  /\ m_read'[r] = Tail(m_read[r])
  /\ ~FromSelf(r, Head(m_read[r]).site_id)
  /\ Head(m_read[r]).message.k \in K

\* C20: an origin enters state_set only with a State or an Announce of it
\* that was merged; a DeltaChange of an origin that is not in state_set leaves
\* the document alone, emits no event and puts exactly one RequestState(o) on
\* the outbound channel (at once, or as the waiting send of read_notify); a
\* DeltaChange changes the document only if its origin is in state_set.
C20_DeltaGating ==
  [][\A r \in Sites :
       LET o == Head(m_read[r]).site_id
           m == Head(m_read[r]).message
       IN  /\ state_set'[r] # state_set[r] =>
                /\ RnTakesKind(r, {"State", "Announce"})
                /\ Merge(changes, commit[r], m.d).ok
                /\ state_set'[r] = state_set[r] \cup {o}
           /\ (RnTakesKind(r, {"DeltaChange"}) /\ o \notin state_set[r]) =>
                /\ commit'[r] = commit[r]
                /\ events'[r] = events[r]
                /\ rn'[r].ev = NoEvent
                /\ \/ /\ m_write'[r] = Append(m_write[r], Msg("RequestState", {}, o))
                      /\ rn'[r].pc = "idle"
                   \/ /\ m_write'[r] = m_write[r]
                      /\ rn'[r].pc = "out"
                      /\ rn'[r].out = Msg("RequestState", {}, o)
           /\ (RnTakesKind(r, {"DeltaChange"}) /\ commit'[r] # commit[r]) => o \in state_set[r]]_vars

\* Replica 2 dropped a non-empty DeltaChange of replica 1, which it had no
\* State of, and asked for the state: its document is as it was created.
C20_Witness ==
  /\ 1 \notin state_set[2]
  /\ commit[2] = Doc({2}, {}, 2, {})
  /\ hist[1].own # {}
  /\ \E i \in DOMAIN m_write[2] : m_write[2][i] = Msg("RequestState", {}, 1)

\* C21: a DeltaChange that read_notify accepts for the first time (its origin
\* is in state_set, the load succeeds and brings changes the document did not
\* hold) is put unchanged on the outbound channel, at once or as the waiting
\* send of read_notify, so that replicas reachable only through r receive it.
C21_DeltaRelay ==
  [][\A r \in Sites :
       LET o == Head(m_read[r]).site_id
           m == Head(m_read[r]).message
       IN  (/\ RnTakesKind(r, {"DeltaChange"})
            /\ o \in state_set[r]
            /\ rn'[r].pc # "ended"
            /\ commit'[r].applied # commit[r].applied) =>
             \/ m_write'[r] = Append(m_write[r], m)
             \/ rn'[r].out = m]_vars

\* read_notify of r sends the event ev in this step: it is on the event
\* channel, or read_notify waits at the send.
Emitted(r, ev) ==
  \/ events'[r] = Append(events[r], ev)
  \/ events'[r] = events[r] /\ rn'[r].pc = "event" /\ rn'[r].ev = ev

\* read_notify of r sends the message out and no other in this step: it is on
\* the outbound channel, or read_notify waits at a send before it.
Put(r, out) ==
  \/ m_write'[r] = Append(m_write[r], out) /\ rn'[r].pc = "idle"
  \/ m_write'[r] = m_write[r] /\ rn'[r].pc \in {"event", "out"} /\ rn'[r].out = out

\* read_notify of r sends nothing outbound in this step.
PutNothing(r) == m_write'[r] = m_write[r] /\ rn'[r].out = NoMsg

C23_Teardown ==
  /\ conn_loop # "select" => {read_handle, write_handle, alive_handle} = {"finished"}
  /\ \A i \in DOMAIN inbound : inbound[i] = "Shutdown" => i = Len(inbound)

\* C24: after the loss of a DeltaChange the replicas become equal again: when
\* the Announce/State round trip was complete before the first DeltaChange
\* and nothing is left to do (every command was issued, the channels are
\* empty, the handlers wait for input and the legs are up), the hydrated
\* TodoStates of the two replicas are equal.
C24_LossRecovery ==
  (Quiescent /\ issued = MaxCmds /\ RoundTrip /\ \A r \in Sites : ~hist[r].early)
  => Current(1) = Current(2)

\* C25: every message of another site that read_notify handles (DeltaChange,
\* State, Announce, RequestState or Alive) inserts or refreshes that site's
\* entry of the alive table; an entry leaves the table only with a Shutdown
\* of its site or when it is ALIVE_TIMEOUT old.
C25_AliveMembership ==
  [][\A r \in Sites :
       LET o == Head(m_read[r]).site_id
       IN  /\ ( /\ RnTakesKind(r, {"DeltaChange", "State", "Announce", "RequestState", "Alive"})
                /\ rn'[r].pc # "ended" )
              => (o \in alive'[r] /\ seen'[r][o] = now)
           /\ \A q \in alive[r] \ alive'[r] :
                \/ RnTakesKind(r, {"Shutdown"}) /\ q = o
                \/ now - seen[r][q] >= ALIVE_TIMEOUT]_vars

\* The datagram the receiver takes in this step.
Polled(d) == d \in wire \ wire' /\ sent' # sent

\* C26, the receiver: a datagram whose seq differs from the seq held for the
\* site discards the partials held and sets seq and num before its body is
\* stored.
C26_ResetRule ==
  [][\A d \in wire :
       (Polled(d) /\ d.seq # site_partials.seq) =>
         /\ site_partials'.seq = d.seq
         /\ site_partials'.num = d.num
         /\ site_partials'.partials = IF d.num = 1 THEN << >> ELSE <<<<d.idx, d.body>>>>]_vars

\* C26, the emissions: no message that lost partials to a reset is handed to
\* the decoder, in whole or in part.
C26_NoSuperseded ==
  \A j \in DOMAIN decoded : \A k \in DOMAIN decoded[j].bytes :
    sent[decoded[j].bytes[k][1]].dropped = {}

\* C26, the sender: the seq of the first message of a site is 1 and the seq
\* of every later message is one more than that of the message before it.
C26_SeqIncreases ==
  \A i \in DOMAIN sent : sent[i].seq = i

\* C26 (Sequence reset): the three parts together.
C26_SequenceReset ==
  /\ C26_ResetRule
  /\ []C26_NoSuperseded
  /\ []C26_SeqIncreases

\* C27: a completed message of the sending site that fails to decode leaves
\* the partials held for the other origin as they are, and the message of the
\* other origin is emitted once all its datagrams have reached the host.
C27_Isolation ==
  /\ [][(receiver = "running" /\ receiver' = "failed") => other_partials' = other_partials]_vars
  /\ [](rx_hist.reached = DOMAIN OtherMessage => rx_hist.emitted)

\* C28: a datagram shorter than the header (the one step that takes a running
\* receiver elsewhere without taking a datagram off the wire) leaves the
\* partials of every origin and the messages handed on as they are and does
\* not fail the receive leg; the receiver is polled again with its state as
\* it was before the datagram.
C28_ShortIgnored ==
  [][/\ (receiver = "running" /\ receiver' # "running" /\ wire' = wire) =>
          /\ receiver' = "parked"
          /\ UNCHANGED <<site_partials, other_partials, decoded>>
     /\ (receiver = "parked" /\ receiver' # "parked") =>
          /\ receiver' = "running"
          /\ UNCHANGED <<site_partials, other_partials, decoded, wire>>]_vars

\* After a short datagram the receiver has handed on a message of the sending
\* site and the message of the other origin, and is running.
C28_Witness ==
  /\ rx_hist.short
  /\ receiver = "running"
  /\ rx_hist.emitted
  /\ decoded # << >>

\* C29: a step in which the legs of a replica end, with an error or normally,
\* puts the ConnectionStatus of the error on the event channel and leaves the
\* queued outbound messages alone (but for the Shutdown the send leg has just
\* sent); the step that ends the wait starts the legs again, with the
\* outbound channel as it was.
C29_SupervisedRestart ==
  [][\A r \in Sites :
       /\ (leg[r] \in {"joined", "up"} /\ leg'[r] = "down") =>
            /\ events'[r] = Append(events[r], NetworkError)
            /\ \/ m_write'[r] = m_write[r]
               \/ m_write[r] # << >> /\ m_write'[r] = Tail(m_write[r])
       /\ (leg[r] = "down" /\ leg'[r] # "down") =>
            /\ leg'[r] = "joined"
            /\ m_write'[r] = m_write[r]]_vars

\* C30: a failed write of the persistence task ends async_inner with an error,
\* and with it every task that async_inner owns: once the persistence task of
\* a replica has failed, its write_notify handles no further command and
\* neither its document nor its outbound channel changes.
C30_FailurePropagates ==
  [][\A r \in Sites :
       sv[r] = "failed" =>
         /\ Len(change_rx'[r]) >= Len(change_rx[r])
         /\ commit'[r] = commit[r]
         /\ m_write'[r] = m_write[r]
         /\ wn'[r] = wn[r]]_vars


\* A connection that p initiated to q is registered at p and has not ended.
Connected(p, q) ==
  \E i \in DOMAIN conns : conns[i].from = p /\ conns[i].to = q /\ conns[i].ini = "registered"

\* C31 (Overlay reconnection): when a dial of the discovery loop to a peer of
\* higher identity fails while no connection to it is up, and when the handle_connection task of an
\* established connection returns at the peer of lower identity, the remote
\* peer is in the known set and absent from the active map of the local peer,
\* so that the next reconnect sweep selects it.
C31_Reconnection ==
  [][/\ \A p \in Peers :
          (DiscoveryDials(p) /\ conns' = conns /\ Initiates(p, dialing[p])
             /\ ~Connected(p, dialing[p]))
          => /\ dialing[p] \in known_peers'[p]
             /\ active_peers'[p][dialing[p]] = 0
     /\ \A i \in DOMAIN conns :
          (conns[i].ini = "registered" /\ conns'[i].ini = "ended")
          => /\ conns[i].to \in known_peers'[conns[i].from]
             /\ active_peers'[conns[i].from][conns[i].to] = 0]_vars

\* C32 (Snapshots do not disturb deltas): a step that emits no delta (a save
\* to file, an Announce, a State reply) and keeps every change of the
\* document takes no change out of what the next save_incremental returns.
C32_SnapshotsKeepDelta ==
  [][\A r \in Sites :
       ( /\ hist'[r].handled = hist[r].handled
         /\ commit[r].applied \subseteq commit'[r].applied )
       => (commit[r].applied \ commit[r].saved)
            \subseteq (commit'[r].applied \ commit'[r].saved)]_vars

\* C33 (Document history is monotone): no step takes a change out of the
\* document of a replica that has made a local edit; such a replica merges
\* a State or Announce, it does not replace its document by the remote one.
C33_HistoryMonotone ==
  [][\A r \in Sites :
       Own(r) # {} => commit[r].applied \subseteq commit'[r].applied]_vars

\* The handle_connection task of connection i at its initiating or its
\* accepting end: spawned, registered (its worker runs), dropped or ended.
Handler(i, is_initiator) == IF is_initiator THEN conns[i].ini ELSE conns[i].acc

\* C34 (Overlay active-map consistency): whenever a connection worker for a
\* remote identity runs at a peer, the active map of the peer holds, for
\* that identity, the entry of a connection whose worker runs; the cleanup
\* of another connection to the same identity has not removed it.
C34_ActiveMap ==
  \A i \in DOMAIN conns, is_initiator \in BOOLEAN :
    Handler(i, is_initiator) = "registered"
    => LET a == active_peers[OurId(conns[i], is_initiator)][RemoteId(conns[i], is_initiator)]
       IN  a # 0 /\ Handler(a, is_initiator) = "registered"


\* C35 (Named-socket transport keeps at most one connection per pair): at
\* every replica at most one connection handler runs per remote site_id,
\* and every message fanned out is written towards a remote at most once.
C35_OneConnection ==
  /\ \A r \in Sites, o \in Sites : Cardinality(HandlersFor(r, o)) <= 1
  /\ \A i \in DOMAIN fanout : \A o \in Sites : fanout[i].copies[o] <= 1

\* C36 (No deadlock through the event channel): no task waits for room on
\* the event channel, holding the write lock of the replica, while a command
\* waits on the command channel for write_notify.  With a consumer that has
\* stopped reading the event channel such a wait never ends.
C36_NoDeadlock ==
  \A r \in Sites :
    ~( /\ lock[r] = "read_notify" /\ rn[r].pc = "event"
       /\ Len(events[r]) >= EventCap
       /\ change_rx[r] # << >> )

\* The command, event and inbound channels of r are empty and its two
\* handlers are idle.
Drained(r) ==
  /\ change_rx[r] = << >> /\ events[r] = << >> /\ m_read[r] = << >>
  /\ wn[r] = "idle" /\ rn[r].pc = "idle"

\* C37 (The consumer's cached state matches the replica): once the command
\* and event channels of a replica are drained, the todo_state of its
\* consumer equals the hydrated document of the replica.
C37_CacheMatches ==
  \A r \in Sites : Drained(r) => todo_state[r] = Current(r)

\* The entries of decoded that are the serialised message i, which the
\* decoder accepts and poll_next emits.
Emissions(i) == {j \in DOMAIN decoded : decoded[j].bytes = Encoded(i, sent[i].len)}

\* C38 (Datagram reassembly emits only what was sent): every buffer the
\* receiver emits as a message is the serialised form of one message sent,
\* and no message sent is emitted more than once.
C38_EmitsOnce ==
  /\ \A j \in DOMAIN decoded :
       DecodeFromSlice(decoded[j].bytes) => \E i \in DOMAIN sent : j \in Emissions(i)
  /\ \A i \in DOMAIN sent : Cardinality(Emissions(i)) <= 1

RECURSIVE SumSeq(_)
SumSeq(q) == IF q = << >> THEN 0 ELSE Head(q) + SumSeq(Tail(q))

\* The protocol messages read_notify of r can still generate, directly and
\* through the answers of the other replicas, for a packet on its inbound
\* channel: a DeltaChange may be answered by a RequestState and that by a
\* State, an Announce or a RequestState for r by a State, a State by nothing,
\* and the packets of r itself are skipped.
Owed(r, pm) ==
  IF pm.site_id = r THEN 0
  ELSE CASE pm.message.k = "DeltaChange" -> 2
         [] pm.message.k = "Announce" -> 1
         [] pm.message.k = "RequestState" -> IF pm.message.t = r THEN 1 ELSE 0
         [] OTHER -> 0

\* The same for a message that is waiting to be sent to the group: itself,
\* and what each of the other replicas can generate for it.
OwedOut(m) ==
  CASE m.k = "DeltaChange" -> 1 + 2 * (Cardinality(Sites) - 1)
    [] m.k = "Announce" -> 1 + (Cardinality(Sites) - 1)
    [] m.k = "RequestState" -> 2
    [] m.k = "State" -> 1
    [] OTHER -> 0

\* The protocol messages that replica r and the answers to them can still
\* add, given its command, inbound and outbound channels, the message
\* read_notify is about to send, and the Announce of a leg not yet up.
PotentialOf(cr, mr, mw, out, lg, r) ==
  SumSeq([i \in DOMAIN cr |-> IF cr[i].k = "Shutdown" THEN 0
                              ELSE OwedOut(Msg("DeltaChange", {}, 0))])
  + SumSeq([i \in DOMAIN mr |-> Owed(r, mr[i])])
  + SumSeq([i \in DOMAIN mw |-> OwedOut(mw[i])])
  + OwedOut(out)
  + (IF lg # "up" THEN OwedOut(Msg("Announce", {}, 0)) ELSE 0)

RECURSIVE SumOver(_, _)
SumOver(f, S) ==
  IF S = {} THEN 0
  ELSE LET x == CHOOSE x \in S : TRUE IN f[x] + SumOver(f, S \ {x})

Potential ==
  SumOver([r \in Sites |-> PotentialOf(change_rx[r], m_read[r], m_write[r], rn[r].out,
                                       leg[r], r)], Sites)
PotentialNext ==
  SumOver([r \in Sites |-> PotentialOf(change_rx'[r], m_read'[r], m_write'[r], rn'[r].out,
                                       leg'[r], r)], Sites)

\* A send leg puts a DeltaChange, State, Announce or RequestState on the
\* network in this step.
Sends ==
  \/ \E r \in Sites : leg[r] = "joined" /\ leg'[r] = "up"
  \/ \E r \in Sites : /\ m_write[r] # << >> /\ m_write'[r] = Tail(m_write[r])
                       /\ OwedOut(Head(m_write[r])) > 0

\* C39 (Protocol quiescence): no step other than a new local command raises
\* the number of protocol messages that can still be generated, and every
\* DeltaChange, State, Announce or RequestState put on the network lowers it:
\* after the last command at most Potential more of them are sent.
C39_Quiescence ==
  [][/\ issued' = issued => PotentialNext <= Potential
     /\ Sends => PotentialNext < Potential]_vars

\* The replicas have exchanged their states, handled every command and
\* every message, and nothing more can be generated.
C39_Witness ==
  /\ Quiescent /\ RoundTrip /\ issued = MaxCmds
  /\ \A r \in Sites : hist[r].own # {}
  /\ Potential = 0

\* C40: terminal UI index safety. After any sequence of key events and
\* StateUpdate events, list_ui has one entry per list, selected_list is at
\* most the number of lists, and no key handler reads todo_state.lists or the
\* items of a list at an index that does not exist.
C40_IndexSafety ==
  /\ Len(tui.list_ui) = Len(tui.todo_state)
  /\ tui.selected_list <= Len(tui.todo_state)
  /\ ~panicked
====
